---- MODULE Spec2Model ----
(***************************************************************************)
(* A model of erlich: the launcher Erlich.train / Erlich._train            *)
(* (src/erlich/manager.py) and the training loop BaseTrainer               *)
(* (src/build/lib/erlich/trainer.py).                                      *)
(*                                                                         *)
(* Conventions.  Python None is the string "null".  A model ID is the      *)
(* natural number i whose decimal string str(i) the code uses in paths     *)
(* (get_next_id returns str(int + 1), list_models reads it back with       *)
(* int()).  A rendezvous path is the number k of "_" markers appended to   *)
(* the path the Erlich object was constructed with.  A worker process is   *)
(* <<l, i>>: slot i of the launch made by launcher l.  A string the code    *)
(* splits or formats (a checkpoint reference, a load reference) is the     *)
(* sequence of its pieces, e.g. <<"5", ".", "enc", "@", "latest">>; the    *)
(* state of a part or of an optimizer is the number of the launch that     *)
(* stepped it last, 0 when it is as constructed.                           *)
(***************************************************************************)
EXTENDS Integers, Sequences, FiniteSets, TLC

\* ---------------------------------------------------------------- bounds
MaxWorld == 2       \* most devices handed to one Erlich.train call
MaxLaunches == 2    \* Erlich.train calls in one behaviour
MaxMarkers == 1     \* rendezvous paths left behind by unrelated runs
MaxEpochs == 2      \* cfg.epochs is drawn from 0..MaxEpochs
MaxBatches == 4     \* len(dataloader) is drawn from 0..MaxBatches
MaxEvery == 3       \* validate_every is drawn from -2..MaxEvery
MaxValBatches == 2  \* length of the validation dataloader, when there is one
MaxParts == 3       \* parts declared in cfg.parts
MaxLoads == 2       \* length of the `load` list of a configuration
MaxUpdates == 3     \* AvgEstimator.update calls on one estimator
MaxValue == 2       \* observations are drawn from 0..MaxValue
MaxWeight == 2      \* weights are drawn from 0..MaxWeight

Launchers == {"L1", "L2"}
Slots == 0 .. (MaxWorld - 1)
Procs == Launchers \X Slots
Ids == 0 .. MaxLaunches
PartNames == <<"A", "B", "C", "D", "E", "F">>
MetricKeys == {"loss", "weight"}

VARIABLES
    \* the model folder and the rendezvous paths (the file system)
    cfg_files,        \* id -> 0 (no <id>.yaml) or the launch that wrote it
    log_files,        \* ids with an <id>.log
    ckpt_files,       \* <<id, epoch, batch>>: snapshots in folder <id>
    latest,           \* id -> <<epoch, batch>> of <id>/latest, or <<>>
    snap,             \* <<id, epoch, batch>> -> what torch.load of that snapshot gives
    rdv_files,        \* the k for which the rendezvous path exists
    \* one Erlich object and its train() call, per launcher
    lpc,              \* position of the launcher in Erlich.train
    shared_file_path, \* self.shared_file_path
    mdl_id,           \* local mdl_id of train()
    world_size,       \* local world_size of train()
    job,              \* cfg, validate_every and the trainer's data sources
    lrec,             \* what this train() call has done so far (history)
    launches,         \* number of train() calls so far
    assigned,         \* launch number -> the id get_next_id returned (history)
    written,          \* <<launch, rank>> that wrote a snapshot (history)
    \* one worker process (or the direct call) per slot
    pc,               \* position of the worker in _train / train
    rank,             \* the rank argument of _train
    w_world_size,     \* the world_size argument of _train
    group,            \* the rendezvous path the worker joined, -1 if none
    logger, saver,    \* "unset", "null", "TrainLogger" / "ModelSaver"
    model_parts,      \* trainer.model_parts: part name -> part
    optimizers,       \* trainer.optimizers: key -> optimizer
    validate_set,     \* the set validate_every of train()
    epoch, batch_idx, \* loop variables of train()
    lg,               \* the logger's batch and epoch counters
    val_calls,        \* the validate() calls so far (history)
    val_steps,        \* validation_step invocations so far (history)
    n_saves,          \* saver.save invocations so far (history)
    last_save,        \* arguments of the last saver.save (history)
    ev,               \* the events of the current batch and their counts (history)
    err,              \* the exception that ended the worker, or "none"
    \* parse_config and AvgEstimator, as their callers use them
    config_folder,    \* name -> the configuration in <config_folder>/<name>.yaml
    stored_cfg,       \* model name -> the configuration in <model_folder>/<name>.yaml
    conf,             \* the parse_config calls made: arguments and result (history)
    est,              \* an AvgEstimator: avg, tot_weight
    upd               \* the update(x, w) calls made on it (history)

fs_vars == <<cfg_files, log_files, ckpt_files, latest, snap, rdv_files>>
launch_vars == <<lpc, shared_file_path, mdl_id, world_size, job, lrec,
                 launches, assigned, written>>
setup_vars == <<rank, w_world_size, group, logger, saver, model_parts, optimizers>>
loop_vars == <<validate_set, epoch, batch_idx, lg>>
hist_vars == <<val_calls, val_steps, n_saves, last_save, ev>>
lib_vars == <<config_folder, stored_cfg, conf, est, upd>>
vars == <<fs_vars, launch_vars, pc, setup_vars, loop_vars, hist_vars, err, lib_vars>>

LauncherOf(p) == p[1]
Min(S) == CHOOSE x \in S : \A y \in S : x <= y
Max(S) == CHOOSE x \in S : \A y \in S : x >= y
EmptyDict == [k \in {} |-> 0]

\* ------------------------------------------------------------- strings

\* `sep in s`
Contains(s, sep) == \E i \in DOMAIN s : s[i] = sep

\* s.split(sep)
RECURSIVE Split(_, _)
Split(s, sep) ==
    IF ~Contains(s, sep) THEN <<s>>
    ELSE LET i == Min({k \in DOMAIN s : s[k] = sep})
         IN <<SubSeq(s, 1, i - 1)>> \o Split(SubSeq(s, i + 1, Len(s)), sep)

Digits == <<"0", "1", "2", "3", "4", "5", "6", "7", "8", "9">>

\* str(n) of a natural number
RECURSIVE Str(_)
Str(n) == IF n < 10 THEN <<Digits[n + 1]>> ELSE Str(n \div 10) \o <<Digits[(n % 10) + 1]>>

\* ---------------------------------------------------- checkpoint files

\* the file name of the snapshot of epoch e, batch b: "<e>.<b>"
TagOf(e, b) == Str(e) \o <<".">> \o Str(b)

\* the snapshots at <model_folder>/<model_id>/<load_batch>.pth
SnapshotsAt(model_id, load_batch) ==
    {k \in DOMAIN snap :
        /\ Str(k[1]) = model_id
        /\ IF load_batch = <<"latest">> THEN latest[k[1]] = <<k[2], k[3]>>
           ELSE TagOf(k[2], k[3]) = load_batch}

NoCheckpoint == [parts |-> EmptyDict, optimizers |-> EmptyDict]

\* torch.load(checkpoint_path)
torch_load(model_id, load_batch) ==
    IF SnapshotsAt(model_id, load_batch) = {}
    THEN [err |-> "FileNotFoundError", checkpoint |-> NoCheckpoint]
    ELSE [err |-> "none",
          checkpoint |-> snap[CHOOSE k \in SnapshotsAt(model_id, load_batch) : TRUE]]

\* `a, b = ref.split("@")` when "@" is in ref, else (ref, "latest"); the
\* unpacking of another number of pieces than two raises
SplitTag(ref) ==
    IF Contains(ref, "@")
    THEN IF Len(Split(ref, "@")) = 2
         THEN [err |-> "none", head |-> Split(ref, "@")[1], tag |-> Split(ref, "@")[2]]
         ELSE [err |-> "ValueError", head |-> <<>>, tag |-> <<>>]
    ELSE [err |-> "none", head |-> ref, tag |-> <<"latest">>]

\* get_checkpoint(checkpoint_name): model_id, load_batch (and the path they make)
get_checkpoint(checkpoint_name) ==
    [err |-> SplitTag(checkpoint_name).err,
     model_id |-> SplitTag(checkpoint_name).head,
     load_batch |-> SplitTag(checkpoint_name).tag]

\* --------------------------------------------------- Erlich.parse_config
\* A configuration is the function from its leaf keys to their values; a leaf
\* key is the tuple of the names on its path, <<"parts", "A", "weights">>.

DefaultBatchSize == 16
DefaultEpochs == 10

\* OmegaConf.merge(a, b): b wins on the keys both define
Merge(a, b) ==
    [k \in DOMAIN a \cup DOMAIN b |-> IF k \in DOMAIN b THEN b[k] ELSE a[k]]

\* conf.pop(key)
Pop(c, key) == [k \in DOMAIN c \ {key} |-> c[k]]

\* the key "a.b.c" of a dotlist entry as a path
DotKey(dotted) == [i \in 1 .. Len(Split(dotted, ".")) |-> Split(dotted, ".")[i][1]]

\* OmegaConf.from_dotlist(additional): a later entry wins over an earlier one
RECURSIVE from_dotlist(_)
from_dotlist(additional) ==
    IF additional = <<>> THEN EmptyDict
    ELSE Merge(from_dotlist(SubSeq(additional, 1, Len(additional) - 1)),
               DotKey(additional[Len(additional)].key) :> additional[Len(additional)].value)

\* `if name.endswith(".yaml"): name = name[:-5]`
StripYaml(name) ==
    IF name # <<>> /\ name[Len(name)] = ".yaml" THEN SubSeq(name, 1, Len(name) - 1)
    ELSE name

\* OmegaConf.load(path) of a file of `folder`
OmegaConf_load(folder, name) ==
    IF name \in DOMAIN folder THEN [err |-> "none", conf |-> folder[name]]
    ELSE [err |-> "FileNotFoundError", conf |-> EmptyDict]

\* OmegaConf.merge(c1, ..., cn): from left to right
RECURSIVE MergeAll(_)
MergeAll(configs) ==
    IF Len(configs) = 1 THEN configs[1]
    ELSE Merge(MergeAll(SubSeq(configs, 1, Len(configs) - 1)), configs[Len(configs)])

\* the merge that puts the loaded configurations on top of the base
MergeLoaded_LoadedWin(loads, c) == MergeAll(<<c>> \o loads)

\* OmegaConf.merge(*loads, conf): in listed order, then the base on top
MergeLoaded(loads, c) == MergeAll(loads \o <<c>>)

\* the `if "load" in conf:` block: [conf, err]
ResolveLoad(c) ==
    LET names == c[<<"load">>]
        files == [i \in DOMAIN names |-> OmegaConf_load(config_folder, <<names[i]>>)]
        missing == {i \in DOMAIN names : files[i].err # "none"}
    IN IF <<"load">> \notin DOMAIN c THEN [conf |-> c, err |-> "none"]
       ELSE IF missing # {} THEN [conf |-> c, err |-> "FileNotFoundError"]
       ELSE [conf |-> Pop(MergeLoaded([i \in DOMAIN names |-> files[i].conf], c), <<"load">>),
             err |-> "none"]

\* lines 58-74: the named configuration, the overrides on top, the loads below
LoadAndMerge(name, additional) ==
    LET file == OmegaConf_load(config_folder, StripYaml(name))
    IN IF file.err # "none" THEN [conf |-> EmptyDict, err |-> file.err]
       ELSE ResolveLoad(Merge(file.conf, from_dotlist(additional)))

\* the part names of conf.parts
PartsOf(c) == {k[2] : k \in {x \in DOMAIN c : Len(x) = 3 /\ x[1] = "parts"}}

\* conf.parts[part_name] as a configuration of its own
PartSpec(c, part_name) ==
    [k \in {<<x[3]>> : x \in {y \in DOMAIN c : Len(y) = 3 /\ y[1] = "parts" /\ y[2] = part_name}}
        |-> c[<<"parts", part_name, k[1]>>]]

\* `conf.parts[part_name] = spec`
SetPart(c, part_name, spec) ==
    LET others == {k \in DOMAIN c : ~(Len(k) = 3 /\ k[1] = "parts" /\ k[2] = part_name)}
        mine == {<<"parts", part_name, k[1]>> : k \in DOMAIN spec}
    IN [k \in others \cup mine |-> IF k \in mine THEN spec[<<k[3]>>] ELSE c[k]]

\* f"{model_name}.{src_part_name}@{checkpoint}"
WeightsRef(model_name, src_part_name, checkpoint) ==
    model_name \o <<".">> \o src_part_name \o <<"@">> \o checkpoint

\* `if "weights" not in conf.parts[part_name]: conf.parts[part_name]["weights"] = ref`
SynthesizeWeights(spec, ref) ==
    IF <<"weights">> \notin DOMAIN spec THEN (<<"weights">> :> ref) @@ spec ELSE spec

\* the body of `for part_name in conf.parts` for a part that declares `load`:
\* [spec, err]
ResolvePart(spec) ==
    LET ref == SplitTag(spec[<<"load">>])
        pieces == Split(ref.head, ".")
        file == OmegaConf_load(stored_cfg, pieces[1])
        merged == Pop(Merge(PartSpec(file.conf, pieces[2][1]), spec), <<"load">>)
    IN IF ref.err # "none" THEN [spec |-> spec, err |-> ref.err]
       ELSE IF Len(pieces) # 2 THEN [spec |-> spec, err |-> "ValueError"]
       ELSE IF file.err # "none" THEN [spec |-> spec, err |-> file.err]
       ELSE IF Len(pieces[2]) # 1 \/ pieces[2][1] \notin PartsOf(file.conf)
       THEN [spec |-> spec, err |-> "KeyError"]
       ELSE [spec |-> SynthesizeWeights(merged, WeightsRef(pieces[1], pieces[2], ref.tag)),
             err |-> "none"]

\* lines 76-93: every part that declares `load` is resolved; [conf, err]
RECURSIVE ResolveParts(_, _)
ResolveParts(c, names) ==
    IF names = {} THEN [conf |-> c, err |-> "none"]
    ELSE LET part_name == CHOOSE n \in names : TRUE
             spec == PartSpec(c, part_name)
             r == ResolvePart(spec)
         IN IF <<"load">> \notin DOMAIN spec THEN ResolveParts(c, names \ {part_name})
            ELSE IF r.err # "none" THEN [conf |-> c, err |-> r.err]
            ELSE ResolveParts(SetPart(c, part_name, r.spec), names \ {part_name})

\* the defaults that fill validation_batch_size whether it is set or not
FillDefaults_Overwrites(c) ==
    LET b == (IF <<"batch_size">> \in DOMAIN c THEN EmptyDict
              ELSE <<"batch_size">> :> DefaultBatchSize) @@ c
        e == (IF <<"epochs">> \in DOMAIN b THEN EmptyDict
              ELSE <<"epochs">> :> DefaultEpochs) @@ b
    IN (<<"validation_batch_size">> :> e[<<"batch_size">>] * 2) @@ e

\* lines 95-98: batch_size, epochs, validation_batch_size when they are unset
FillDefaults(c) ==
    LET b == (IF <<"batch_size">> \in DOMAIN c THEN EmptyDict
              ELSE <<"batch_size">> :> DefaultBatchSize) @@ c
        e == (IF <<"epochs">> \in DOMAIN b THEN EmptyDict
              ELSE <<"epochs">> :> DefaultEpochs) @@ b
    IN (IF <<"validation_batch_size">> \in DOMAIN e THEN EmptyDict
        ELSE <<"validation_batch_size">> :> e[<<"batch_size">>] * 2) @@ e

\* parse_config(name, additional): [conf, err]
parse_config(name, additional) ==
    LET merged == LoadAndMerge(name, additional)
        parts == ResolveParts(merged.conf, PartsOf(merged.conf))
    IN IF merged.err # "none" THEN [conf |-> EmptyDict, err |-> merged.err]
       ELSE IF PartsOf(merged.conf) = {} THEN [conf |-> merged.conf, err |-> "TypeError"]
       ELSE IF parts.err # "none" THEN [conf |-> parts.conf, err |-> parts.err]
       ELSE [conf |-> FillDefaults(parts.conf), err |-> "none"]

\* ------------------------------------------------- BaseTrainer: optimizers

\* part.parameters() of the part built for part_name
Parameters(part) == {<<part.name, "weight">>, <<part.name, "bias">>}

\* default_get_optimizer: the two built-in kinds, anything else raises
default_get_optimizer(name, parameters) ==
    IF name = "adam"
    THEN [kind |-> "Adam", params |-> parameters, state |-> 0, err |-> "none"]
    ELSE IF name = "sgd"
    THEN [kind |-> "SGD", params |-> parameters, state |-> 0, err |-> "none"]
    ELSE [kind |-> "none", params |-> {}, state |-> 0, err |-> "UnsupportedOptimizer"]

get_optimizer(name, parameters) == default_get_optimizer(name, parameters)

\* the test without the frozen flag
RequiresOptimizer_IgnoresFrozen(part) == TRUE

\* `"frozen" not in part or part["frozen"] is False`
RequiresOptimizer(part) == part.frozen = "absent" \/ part.frozen = "false"

\* `"optimizer" in part`
HasOwnOptimizer(part) == part.optimizer # "absent"

\* The loop over cfg.parts, in declaration order.  acc is
\* [optimizers, require_global_optimizer, err]; an exception ends the pass.
RECURSIVE OptimizerPass(_, _, _, _)
OptimizerPass(order, parts, mp, acc) ==
    IF order = <<>> \/ acc.err # "none" THEN acc
    ELSE LET part_name == Head(order)
             part == parts[part_name]
             made == get_optimizer(part.optimizer, Parameters(mp[part_name]))
             next ==
                 IF RequiresOptimizer(part)
                 THEN IF HasOwnOptimizer(part)
                      THEN IF made.err = "none"
                           THEN [acc EXCEPT !.optimizers =
                                    (part_name :> [kind |-> made.kind, params |-> made.params,
                                                   state |-> made.state])
                                    @@ acc.optimizers]
                           ELSE [acc EXCEPT !.err = made.err]
                      ELSE [acc EXCEPT !.require_global_optimizer = Append(@, part_name)]
                 ELSE acc
         IN OptimizerPass(Tail(order), parts, mp, next)

RECURSIVE GlobalParameters(_, _)
GlobalParameters(names, mp) ==
    IF names = <<>> THEN {}
    ELSE Parameters(mp[Head(names)]) \cup GlobalParameters(Tail(names), mp)

\* instantiate_optimizers(cfg) on a trainer whose optimizers are `before`:
\* [optimizers, err]
instantiate_optimizers(cfg, mp, before) ==
    LET pass == OptimizerPass(cfg.order, cfg.parts, mp,
                    [optimizers |-> before, require_global_optimizer |-> <<>>,
                     err |-> "none"])
        glob == get_optimizer(cfg.optimizer,
                    GlobalParameters(pass.require_global_optimizer, mp))
    IN IF pass.err # "none" THEN [optimizers |-> pass.optimizers, err |-> pass.err]
       ELSE IF pass.require_global_optimizer # <<>>
       THEN IF glob.err = "none"
            THEN [optimizers |-> ("__global" :> [kind |-> glob.kind, params |-> glob.params,
                                                 state |-> glob.state])
                                 @@ pass.optimizers,
                  err |-> "none"]
            ELSE [optimizers |-> pass.optimizers, err |-> glob.err]
       ELSE [optimizers |-> pass.optimizers, err |-> "none"]

\* ------------------------------------------------ BaseTrainer: train loop

\* Python's range(start, stop, step) as a set; step = 0 raises (see train_begin)
PyRange(start, stop, step) ==
    IF step > 0 THEN {i \in start .. (stop - 1) : (i - start) % step = 0}
    ELSE IF step < 0 THEN {i \in (stop + 1) .. start : (start - i) % (-step) = 0}
    ELSE {}

\* the trigger set without the exclusion of the last batch
ValidateEvery_KeepsLast(validate_every, n) ==
    IF validate_every = -1 THEN {}
    ELSE PyRange(validate_every, n, validate_every)

\* the set validate_every of train(): the batches after which the model is validated
ValidateEvery(validate_every, n) ==
    IF validate_every = -1 THEN {}
    ELSE PyRange(validate_every, n, validate_every) \ {n - 1}


\* validate(): the pass over the validation dataloader.  results[i] is what
\* validation_step does on batch i: it returns a dict with the given keys, or
\* raises.  [err, steps, estimators]: steps counts the validation_step calls.
FirstFailure(results) ==
    LET bad == {i \in DOMAIN results : ~results[i].ok}
    IN IF bad = {} THEN 0 ELSE Min(bad)

validation_pass(val_batches, results) ==
    IF val_batches = -1
    THEN [err |-> "none", steps |-> 0, estimators |-> {}]
    ELSE IF FirstFailure(results) # 0
    THEN [err |-> "StepFailure", steps |-> FirstFailure(results), estimators |-> {}]
    ELSE [err |-> "none", steps |-> val_batches,
          estimators |-> UNION {results[i].keys : i \in DOMAIN results}]

StepResults ==
    {[ok |-> TRUE, keys |-> K] : K \in SUBSET MetricKeys} \cup {[ok |-> FALSE, keys |-> {}]}

\* what the validation dataloader's batches can do; None and the empty
\* dataloader have no batches
ValOutcomes(val_batches) ==
    IF val_batches <= 0 THEN {<<>>} ELSE [1 .. val_batches -> StepResults]

\* x.state_dict() of a part or an optimizer
state_dict(x) == [state |-> x.state]

\* ModelSaver.save(parts, optimizers, amp, epoch, batch, metrics): the snapshot
\* <model_folder>/<id>/<epoch, batch> and the alias <id>/latest
ModelSaver_save(p, e, b) ==
    /\ ckpt_files' = ckpt_files \cup {<<mdl_id[LauncherOf(p)], e, b>>}
    /\ snap' = (<<mdl_id[LauncherOf(p)], e, b>> :>
                   [parts |-> [n \in DOMAIN model_parts[p] |-> state_dict(model_parts[p][n])],
                    optimizers |-> [k \in DOMAIN optimizers[p] |-> state_dict(optimizers[p][k])]])
               @@ snap
    /\ latest' = [latest EXCEPT ![mdl_id[LauncherOf(p)]] = <<e, b>>]
    /\ written' = written \cup {<<lrec[LauncherOf(p)].no, rank[p]>>}

NoSave == UNCHANGED <<ckpt_files, latest, snap, written>>

\* The position after batch b of epoch e, and after the end of epoch e
AfterBatch(l, e, b) ==
    IF b + 1 < job[l].batches THEN [pc |-> "zero_grad", epoch |-> e, batch_idx |-> b + 1]
    ELSE [pc |-> "log_epoch", epoch |-> e, batch_idx |-> b]

AfterEpoch(l, e, b) ==
    IF e + 1 < job[l].epochs
    THEN IF job[l].batches > 0
         THEN [pc |-> "zero_grad", epoch |-> e + 1, batch_idx |-> 0]
         ELSE [pc |-> "log_epoch", epoch |-> e + 1, batch_idx |-> b]
    ELSE [pc |-> "done", epoch |-> e, batch_idx |-> b]

Goto(p, pos) ==
    /\ pc' = [pc EXCEPT ![p] = pos.pc]
    /\ epoch' = [epoch EXCEPT ![p] = pos.epoch]
    /\ batch_idx' = [batch_idx EXCEPT ![p] = pos.batch_idx]

Raise(p, e) ==
    /\ pc' = [pc EXCEPT ![p] = "failed"]
    /\ err' = [err EXCEPT ![p] = e]

\* validate(epoch, train_batch, use_apex), then on to position `pos`; `saves`
\* tells whether the call goes through self.saver.save(...)
validate_body(p, e, train_batch, mid, results, pos, saves) ==
    LET l == LauncherOf(p)
        v == validation_pass(job[l].val_batches, results)
    IN /\ val_calls' = [val_calls EXCEPT ![p] = Append(@, <<e, train_batch, mid>>)]
       /\ ev' = [ev EXCEPT ![p] = Append(@, <<"validate", e, train_batch, {}>>)]
       /\ val_steps' = [val_steps EXCEPT ![p] = @ + v.steps]
       /\ IF v.err # "none"
          THEN /\ Raise(p, v.err)
               /\ NoSave
               /\ UNCHANGED <<n_saves, last_save, epoch, batch_idx>>
          ELSE IF ~saves
          THEN /\ Goto(p, pos)
               /\ NoSave
               /\ UNCHANGED <<n_saves, last_save, err>>
          ELSE IF saver[p] # "ModelSaver"
          THEN /\ Raise(p, "AttributeError")
               /\ NoSave
               /\ UNCHANGED <<n_saves, last_save, epoch, batch_idx>>
          ELSE /\ ModelSaver_save(p, e, train_batch)
               /\ n_saves' = [n_saves EXCEPT ![p] = @ + 1]
               /\ last_save' = [last_save EXCEPT ![p] =
                      [epoch |-> e, batch |-> train_batch, metrics |-> v.estimators,
                       parts |-> model_parts[p], optimizers |-> optimizers[p]]]
               /\ Goto(p, pos)
               /\ UNCHANGED err

\* a validate() that saves only when there is validation data
validate_OnlyWithData(p, e, train_batch, mid, results, pos) ==
    validate_body(p, e, train_batch, mid, results, pos,
                  job[LauncherOf(p)].val_batches # -1)

\* the save of validate() is unconditional
validate(p, e, train_batch, mid, results, pos) ==
    validate_body(p, e, train_batch, mid, results, pos, TRUE)

\* trainer_class(cfg, model_parts, saver, logger, device, ...): BaseTrainer.__init__
Construct(p) ==
    /\ pc[p] = "construct"
    /\ optimizers' = [optimizers EXCEPT ![p] = EmptyDict]
    /\ IF job[LauncherOf(p)].train_metrics > 0 /\ logger[p] # "TrainLogger"
       THEN Raise(p, "AttributeError")
       ELSE pc' = [pc EXCEPT ![p] = "load_checkpoint"] /\ UNCHANGED err
    /\ UNCHANGED <<fs_vars, launch_vars, rank, w_world_size, group, logger, saver,
                   model_parts, loop_vars, hist_vars>>
    /\ UNCHANGED lib_vars

\* trainer.instantiate_optimizers(cfg)
InstantiateOptimizers(p) ==
    /\ pc[p] = "optimizers"
    /\ LET r == instantiate_optimizers(job[LauncherOf(p)], model_parts[p], optimizers[p])
       IN /\ optimizers' = [optimizers EXCEPT ![p] = r.optimizers]
          /\ IF r.err = "none"
             THEN pc' = [pc EXCEPT ![p] = "train"] /\ UNCHANGED err
             ELSE Raise(p, r.err)
    /\ UNCHANGED <<fs_vars, launch_vars, rank, w_world_size, group, logger, saver,
                   model_parts, loop_vars, hist_vars>>
    /\ UNCHANGED lib_vars

\* sorted(list(d.keys())): Python orders the part names before "__global"
KeyOrder == PartNames \o <<"__global">>

sorted(keys) == SelectSeq(KeyOrder, LAMBDA k : k \in keys)

\* what amp.initialize makes of a part or an optimizer
Wrapped(x) == x @@ [amp |-> TRUE]

\* amp.initialize(parts, optimizers, opt_level): the wrapped parts and
\* optimizers, in the order they were given in
amp_initialize(parts, opts) ==
    [parts |-> [i \in DOMAIN parts |-> Wrapped(parts[i])],
     optimizers |-> [i \in DOMAIN opts |-> Wrapped(opts[i])]]

\* a dict that gives every key the element after the one at its position
DictOfZip_Shifted(keys, xs) ==
    [k \in {keys[i] : i \in DOMAIN keys \cap DOMAIN xs} |->
        xs[((CHOOSE i \in DOMAIN keys : keys[i] = k) % Len(xs)) + 1]]

\* {k: x for k, x in zip(keys, xs)}
DictOfZip(keys, xs) ==
    [k \in {keys[i] : i \in DOMAIN keys \cap DOMAIN xs} |->
        xs[CHOOSE i \in DOMAIN keys : keys[i] = k]]

\* the `if using_apex:` block of train(): [model_parts, optimizers, parts,
\* optimizers_list], the last two being the lists handed to amp.initialize
ApexBlock(mp, opts) ==
    LET part_keys == sorted(DOMAIN mp)
        opt_keys == sorted(DOMAIN opts)
        parts == [i \in DOMAIN part_keys |-> mp[part_keys[i]]]
        optimizers_list == [i \in DOMAIN opt_keys |-> opts[opt_keys[i]]]
        out == amp_initialize(parts, optimizers_list)
    IN [model_parts |-> DictOfZip(part_keys, out.parts),
        optimizers |-> DictOfZip(opt_keys, out.optimizers),
        part_keys |-> part_keys, opt_keys |-> opt_keys]

\* train(): the trigger set, logger.min_wait, the mixed-precision wrap,
\* logger.start, entry of the loops
TrainBegin(p) ==
    LET l == LauncherOf(p)
        ok == job[l].validate_every # 0 /\ logger[p] = "TrainLogger"
        wrap == ApexBlock(model_parts[p], optimizers[p])
    IN
    /\ pc[p] = "train"
    /\ IF job[l].validate_every = 0
       THEN Raise(p, "ValueError") /\ UNCHANGED <<validate_set, epoch, batch_idx>>
       ELSE IF logger[p] # "TrainLogger"
       THEN Raise(p, "AttributeError") /\ UNCHANGED <<validate_set, epoch, batch_idx>>
       ELSE /\ validate_set' = [validate_set EXCEPT ![p] =
                   ValidateEvery(job[l].validate_every, job[l].batches)]
            /\ Goto(p, AfterEpoch(l, -1, 0))
            /\ UNCHANGED err
    /\ IF ok /\ job[l].apex
       THEN /\ model_parts' = [model_parts EXCEPT ![p] = wrap.model_parts]
            /\ optimizers' = [optimizers EXCEPT ![p] = wrap.optimizers]
       ELSE UNCHANGED <<model_parts, optimizers>>
    /\ UNCHANGED <<fs_vars, launch_vars, rank, w_world_size, group, logger, saver, lg,
                   hist_vars>>
    /\ UNCHANGED lib_vars

\* optim.zero_grad() for every optimizer, move_to_device
ZeroGrad(p) ==
    /\ pc[p] = "zero_grad"
    /\ pc' = [pc EXCEPT ![p] = "train_step"]
    /\ ev' = [ev EXCEPT ![p] = Append(@, <<"zero_grad", epoch[p], batch_idx[p], DOMAIN optimizers[p]>>)]
    /\ UNCHANGED <<fs_vars, launch_vars, setup_vars, loop_vars, val_calls, val_steps,
                   n_saves, last_save, err>>
    /\ UNCHANGED lib_vars

\* a train step whose exception is caught and recorded, the batch going on
TrainStep_CatchesFailure(p) ==
    /\ pc[p] = "train_step"
    /\ pc' = [pc EXCEPT ![p] = "backward"]
    /\ \E ok \in BOOLEAN :
          IF ok THEN UNCHANGED err
          ELSE err' = [err EXCEPT ![p] = "StepFailure"]
    /\ ev' = [ev EXCEPT ![p] = Append(@, <<"train_step", epoch[p], batch_idx[p], {}>>)]
    /\ UNCHANGED <<fs_vars, launch_vars, setup_vars, loop_vars, val_calls, val_steps,
                   n_saves, last_save>>
    /\ UNCHANGED lib_vars

\* loss = self.train_step(...): the collaborator returns a loss or raises
TrainStep(p) ==
    /\ pc[p] = "train_step"
    /\ \E ok \in BOOLEAN :
          IF ok THEN pc' = [pc EXCEPT ![p] = "backward"] /\ UNCHANGED err
          ELSE Raise(p, "StepFailure")
    /\ ev' = [ev EXCEPT ![p] = Append(@, <<"train_step", epoch[p], batch_idx[p], {}>>)]
    /\ UNCHANGED <<fs_vars, launch_vars, setup_vars, loop_vars, val_calls, val_steps,
                   n_saves, last_save>>
    /\ UNCHANGED lib_vars

\* loss.backward()
Backward(p) ==
    /\ pc[p] = "backward"
    /\ pc' = [pc EXCEPT ![p] = "opt_step"]
    /\ ev' = [ev EXCEPT ![p] = Append(@, <<"backward", epoch[p], batch_idx[p], {}>>)]
    /\ UNCHANGED <<fs_vars, launch_vars, setup_vars, loop_vars, val_calls, val_steps,
                   n_saves, last_save, err>>
    /\ UNCHANGED lib_vars

\* the parameters the optimizers step
OptimizedParameters(opts) == UNION {opts[k].params : k \in DOMAIN opts}

\* the optimizers step as soon as the loss is there, without its backward pass
OptStep_BeforeBackward(p) ==
    LET no == lrec[LauncherOf(p)].no IN
    /\ pc[p] = "backward"
    /\ pc' = [pc EXCEPT ![p] = "log_batch"]
    /\ optimizers' = [optimizers EXCEPT ![p] =
           [k \in DOMAIN @ |-> [@[k] EXCEPT !.state = no]]]
    /\ ev' = [ev EXCEPT ![p] = Append(@, <<"step", epoch[p], batch_idx[p], DOMAIN optimizers[p]>>)]
    /\ UNCHANGED <<fs_vars, launch_vars, rank, w_world_size, group, logger, saver,
                   model_parts, loop_vars, val_calls, val_steps, n_saves, last_save, err>>
    /\ UNCHANGED lib_vars

\* optim.step() for every optimizer: the optimizers and the parts whose
\* parameters they hold now carry this launch's state
OptStep(p) ==
    LET no == lrec[LauncherOf(p)].no IN
    /\ pc[p] = "opt_step"
    /\ pc' = [pc EXCEPT ![p] = "log_batch"]
    /\ optimizers' = [optimizers EXCEPT ![p] =
           [k \in DOMAIN @ |-> [@[k] EXCEPT !.state = no]]]
    /\ model_parts' = [model_parts EXCEPT ![p] =
           [n \in DOMAIN @ |->
               IF Parameters(@[n]) \cap OptimizedParameters(optimizers[p]) # {}
               THEN [@[n] EXCEPT !.state = no] ELSE @[n]]]
    /\ ev' = [ev EXCEPT ![p] = Append(@, <<"step", epoch[p], batch_idx[p], DOMAIN optimizers[p]>>)]
    /\ UNCHANGED <<fs_vars, launch_vars, rank, w_world_size, group, logger, saver,
                   loop_vars, val_calls, val_steps, n_saves, last_save, err>>
    /\ UNCHANGED lib_vars

\* self.logger.batch()
LogBatch(p) ==
    /\ pc[p] = "log_batch"
    /\ IF logger[p] # "TrainLogger"
       THEN Raise(p, "AttributeError") /\ UNCHANGED lg
       ELSE /\ lg' = [lg EXCEPT ![p].batches = @ + 1]
            /\ pc' = [pc EXCEPT ![p] = "check_validate"]
            /\ UNCHANGED err
    /\ ev' = [ev EXCEPT ![p] = Append(@, <<"log_batch", epoch[p], batch_idx[p], {}>>)]
    /\ UNCHANGED <<fs_vars, launch_vars, setup_vars, validate_set, epoch, batch_idx,
                   val_calls, val_steps, n_saves, last_save>>
    /\ UNCHANGED lib_vars

\* `if batch_idx in validate_every: self.validate(epoch, batch_idx, using_apex)`
MidValidate(p) ==
    LET l == LauncherOf(p) IN
    /\ pc[p] = "check_validate"
    /\ batch_idx[p] \in validate_set[p]
    /\ \E results \in ValOutcomes(job[l].val_batches) :
          validate(p, epoch[p], batch_idx[p], TRUE, results,
                   AfterBatch(l, epoch[p], batch_idx[p]))
    /\ UNCHANGED <<cfg_files, log_files, rdv_files, lpc, shared_file_path, mdl_id,
                   world_size, job, lrec, launches, assigned, setup_vars,
                   validate_set, lg>>
    /\ UNCHANGED lib_vars

\* the same test, when the batch is not in the set
SkipValidate(p) ==
    /\ pc[p] = "check_validate"
    /\ batch_idx[p] \notin validate_set[p]
    /\ Goto(p, AfterBatch(LauncherOf(p), epoch[p], batch_idx[p]))
    /\ UNCHANGED <<fs_vars, launch_vars, setup_vars, validate_set, lg, hist_vars, err>>
    /\ UNCHANGED lib_vars

\* self.logger.epoch()
LogEpoch(p) ==
    /\ pc[p] = "log_epoch"
    /\ IF logger[p] # "TrainLogger"
       THEN Raise(p, "AttributeError") /\ UNCHANGED lg
       ELSE /\ lg' = [lg EXCEPT ![p].epochs = @ + 1]
            /\ pc' = [pc EXCEPT ![p] = "end_validate"]
            /\ UNCHANGED err
    /\ UNCHANGED <<fs_vars, launch_vars, setup_vars, validate_set, epoch, batch_idx,
                   hist_vars>>
    /\ UNCHANGED lib_vars

\* the train_batch argument of the end-of-epoch validate: the batch count less one
EndOfEpochBatch_LastIndex(n) == n - 1

\* the train_batch argument of the end-of-epoch validate: len(self.dataloader)
EndOfEpochBatch(n) == n

\* self.validate(epoch, len(self.dataloader), using_apex)
EndValidate(p) ==
    LET l == LauncherOf(p) IN
    /\ pc[p] = "end_validate"
    /\ \E results \in ValOutcomes(job[l].val_batches) :
          validate(p, epoch[p], EndOfEpochBatch(job[l].batches), FALSE, results,
                   AfterEpoch(l, epoch[p], batch_idx[p]))
    /\ UNCHANGED <<cfg_files, log_files, rdv_files, lpc, shared_file_path, mdl_id,
                   world_size, job, lrec, launches, assigned, setup_vars,
                   validate_set, lg>>
    /\ UNCHANGED lib_vars

Trainer(p) ==
    \/ Construct(p)
    \/ InstantiateOptimizers(p)
    \/ TrainBegin(p)
    \/ ZeroGrad(p)
    \/ TrainStep(p)
    \/ Backward(p)
    \/ OptStep(p)
    \/ LogBatch(p)
    \/ MidValidate(p)
    \/ SkipValidate(p)
    \/ LogEpoch(p)
    \/ EndValidate(p)


\* ------------------------------------------------------------ the inputs

PartSpecs ==
    [frozen : {"absent", "false", "true"}, optimizer : {"absent", "sgd", "lamb"},
     arch : {"net"}, weights : {<<>>}]

\* a trainer's parts: frozen A, B with its own optimizer, C on the global one
DefaultParts ==
    ("A" :> [frozen |-> "true", optimizer |-> "absent", arch |-> "net", weights |-> <<>>])
    @@ ("B" :> [frozen |-> "false", optimizer |-> "sgd", arch |-> "net", weights |-> <<>>])
    @@ ("C" :> [frozen |-> "absent", optimizer |-> "absent", arch |-> "net", weights |-> <<>>])

MakeJob(d, e, n, vb, ve, tm, order, parts, opt) ==
    [devices |-> d, epochs |-> e, batches |-> n, val_batches |-> vb,
     validate_every |-> ve, train_metrics |-> tm, order |-> order, parts |-> parts,
     optimizer |-> opt, load_checkpoint |-> <<>>, load_optimizers |-> "absent",
     apex |-> FALSE]

DefaultJob == MakeJob(1, 1, 1, -1, -1, 0, <<"A", "B", "C">>, DefaultParts, "adam")

\* The configurations handed to train(): the plain one; one whose part C has no
\* architecture; one whose part C names weights "0.Z", a part no snapshot of
\* model 0 holds; one that resumes from the latest snapshot of model 0.
JobVariants == {"plain", "no_arch", "weights", "resume"}

JobVariant(j, v) ==
    IF v = "no_arch" THEN [j EXCEPT !.parts["C"].arch = "absent"]
    ELSE IF v = "weights" THEN [j EXCEPT !.parts["C"].weights = <<"0", ".", "Z">>]
    ELSE IF v = "resume" THEN [j EXCEPT !.load_checkpoint = <<"0">>]
    ELSE j

\* the train() calls of the launcher
LaunchJobs ==
    {JobVariant(MakeJob(d, 1, 3, -1, 1, 0, <<"A", "B", "C">>, DefaultParts, "adam"), v) :
        d \in 1 .. MaxWorld, v \in JobVariants}

\* the trainers of the training loop
TrainerJobs ==
    {MakeJob(1, e, n, vb, ve, tm, <<"A", "B", "C">>, DefaultParts, "adam") :
        e \in 0 .. MaxEpochs, n \in 0 .. MaxBatches, vb \in -1 .. MaxValBatches,
        ve \in -2 .. MaxEvery, tm \in 0 .. 1}

\* the first k declared part names
FirstNames(k) == {PartNames[i] : i \in 1 .. k}

NoLaunch ==
    [no |-> 0, spawned |-> 0, direct |-> 0, checked |-> FALSE, retries |-> 0,
     start_path |-> 0, start_rdv |-> {}, joined |-> {}]

\* ------------------------------------------------------ Erlich: model IDs

\* os.path.exists(yaml) and os.path.exists(folder) and len(os.listdir(folder)) > 0
model_actually_exists(id) ==
    /\ cfg_files[id] # 0
    /\ \E f \in ckpt_files : f[1] = id

\* the ids of the *.yaml files, filtered by model_actually_exists
list_models == {id \in Ids : cfg_files[id] # 0 /\ model_actually_exists(id)}

\* the id after the last config file, whether its folder has checkpoints or not
get_next_id_AfterLastConfig ==
    IF \E id \in Ids : cfg_files[id] # 0
    THEN Max({id \in Ids : cfg_files[id] # 0}) + 1
    ELSE 0

\* the last id, not the one after it
get_next_id_NoIncrement == IF list_models # {} THEN Max(list_models) ELSE 0

\* str(list_models()[-1] + 1), or "0"
get_next_id == IF list_models # {} THEN Max(list_models) + 1 ELSE 0

\* ---------------------------------------------------- Erlich.train (launcher)

NoSaveYet ==
    [epoch |-> -1, batch |-> -1, metrics |-> {}, parts |-> EmptyDict,
     optimizers |-> EmptyDict]

\* mp.spawn hands process i the index i as its first argument: run_train(rank, ...)
run_train_rank(i) == i

\* The workers of launcher l are replaced: the slots in `active` start _train
\* with world size ws, every other slot of l is no process.
SetWorkers(l, active, ws) ==
    LET mine(q) == q[1] = l
        on(q) == q[1] = l /\ q[2] \in active
    IN /\ pc' = [q \in Procs |-> IF on(q) THEN "init_group" ELSE IF mine(q) THEN "off" ELSE pc[q]]
       /\ rank' = [q \in Procs |-> IF on(q) THEN run_train_rank(q[2])
                                    ELSE IF mine(q) THEN -1 ELSE rank[q]]
       /\ w_world_size' = [q \in Procs |-> IF on(q) THEN ws
                                            ELSE IF mine(q) THEN 0 ELSE w_world_size[q]]
       /\ group' = [q \in Procs |-> IF mine(q) THEN -1 ELSE group[q]]
       /\ logger' = [q \in Procs |-> IF mine(q) THEN "unset" ELSE logger[q]]
       /\ saver' = [q \in Procs |-> IF mine(q) THEN "unset" ELSE saver[q]]
       /\ model_parts' = [q \in Procs |-> IF mine(q) THEN EmptyDict ELSE model_parts[q]]
       /\ optimizers' = [q \in Procs |-> IF mine(q) THEN EmptyDict ELSE optimizers[q]]
       /\ validate_set' = [q \in Procs |-> IF mine(q) THEN {} ELSE validate_set[q]]
       /\ epoch' = [q \in Procs |-> IF mine(q) THEN 0 ELSE epoch[q]]
       /\ batch_idx' = [q \in Procs |-> IF mine(q) THEN 0 ELSE batch_idx[q]]
       /\ lg' = [q \in Procs |-> IF mine(q) THEN [batches |-> 0, epochs |-> 0] ELSE lg[q]]
       /\ val_calls' = [q \in Procs |-> IF mine(q) THEN <<>> ELSE val_calls[q]]
       /\ val_steps' = [q \in Procs |-> IF mine(q) THEN 0 ELSE val_steps[q]]
       /\ n_saves' = [q \in Procs |-> IF mine(q) THEN 0 ELSE n_saves[q]]
       /\ last_save' = [q \in Procs |-> IF mine(q) THEN NoSaveYet ELSE last_save[q]]
       /\ ev' = [q \in Procs |-> IF mine(q) THEN <<>> ELSE ev[q]]
       /\ err' = [q \in Procs |-> IF mine(q) THEN "none" ELSE err[q]]

WorkersUnchanged == UNCHANGED <<pc, setup_vars, loop_vars, hist_vars, err>>

\* train(): mkdir of the model folder, mdl_id = self.get_next_id()
TrainGetId(l, j) ==
    /\ lpc[l] = "idle"
    /\ launches < MaxLaunches
    /\ launches' = launches + 1
    /\ mdl_id' = [mdl_id EXCEPT ![l] = get_next_id]
    /\ assigned' = Append(assigned, get_next_id)
    /\ job' = [job EXCEPT ![l] = j]
    /\ lrec' = [lrec EXCEPT ![l] =
           [no |-> launches + 1, spawned |-> 0, direct |-> 0, checked |-> FALSE,
            retries |-> 0, start_path |-> shared_file_path[l],
            start_rdv |-> rdv_files, joined |-> {}]]
    /\ lpc' = [lpc EXCEPT ![l] = "save_config"]
    /\ UNCHANGED <<fs_vars, shared_file_path, world_size, written>>
    /\ WorkersUnchanged
    /\ UNCHANGED lib_vars

\* the test with every launch spawning
UsesSpawn_Always(ws) == ws >= 1

\* `if world_size > 1:` of train()
UsesSpawn(ws) == ws > 1

\* train(): remove a stale <id>.yaml and <id>.log, OmegaConf.save(cfg, cfg_path),
\* world_size = len(devices)
TrainSaveConfig(l) ==
    /\ lpc[l] = "save_config"
    /\ cfg_files' = [cfg_files EXCEPT ![mdl_id[l]] = lrec[l].no]
    /\ log_files' = log_files \ {mdl_id[l]}
    /\ world_size' = [world_size EXCEPT ![l] = job[l].devices]
    /\ lpc' = [lpc EXCEPT ![l] = IF UsesSpawn(job[l].devices) THEN "rendezvous" ELSE "direct"]
    /\ UNCHANGED <<ckpt_files, latest, snap, rdv_files, shared_file_path, mdl_id, job, lrec,
                   launches, assigned, written>>
    /\ WorkersUnchanged
    /\ UNCHANGED lib_vars

\* os.path.exists(self.shared_file_path)
PathExists(path) == path \in rdv_files

\* a path two markers on
NextPath_SkipsOne(path) == path + 2

\* self.shared_file_path + "_"
NextPath(path) == path + 1

\* one turn of `while os.path.exists(self.shared_file_path)`
TrainRetryPath(l) ==
    /\ lpc[l] = "rendezvous"
    /\ PathExists(shared_file_path[l])
    /\ shared_file_path' = [shared_file_path EXCEPT ![l] = NextPath(@)]
    /\ lrec' = [lrec EXCEPT ![l].checked = TRUE, ![l].retries = @ + 1]
    /\ UNCHANGED <<fs_vars, lpc, mdl_id, world_size, job, launches, assigned, written>>
    /\ WorkersUnchanged
    /\ UNCHANGED lib_vars

\* the loop ends on an unused path; mp.spawn(run_train, nprocs=world_size)
TrainSpawn(l) ==
    /\ lpc[l] = "rendezvous"
    /\ ~PathExists(shared_file_path[l])
    /\ lrec' = [lrec EXCEPT ![l].checked = TRUE, ![l].spawned = world_size[l]]
    /\ SetWorkers(l, 0 .. (world_size[l] - 1), world_size[l])
    /\ lpc' = [lpc EXCEPT ![l] = "join"]
    /\ UNCHANGED <<fs_vars, shared_file_path, mdl_id, world_size, job, launches,
                   assigned, written>>
    /\ UNCHANGED lib_vars

\* the else branch: self._train(0, 1, devices, ...) in the calling process
TrainDirect(l) ==
    /\ lpc[l] = "direct"
    /\ lrec' = [lrec EXCEPT ![l].direct = @ + 1]
    /\ SetWorkers(l, {0}, 1)
    /\ lpc' = [lpc EXCEPT ![l] = "join"]
    /\ UNCHANGED <<fs_vars, shared_file_path, mdl_id, world_size, job, launches,
                   assigned, written>>
    /\ UNCHANGED lib_vars

Running(l) == {q \in Procs : q[1] = l /\ pc[q] # "off"}

\* The store removes the rendezvous file when its processes end normally; a
\* terminated or killed group leaves it behind.
LeaveRendezvous(l, clean) ==
    rdv_files' = IF clean /\ lrec[l].joined # {} THEN rdv_files \ {shared_file_path[l]}
                 ELSE rdv_files

\* train() is left: its locals and its arguments are gone
EndCall(l) ==
    /\ lpc' = [lpc EXCEPT ![l] = "idle"]
    /\ mdl_id' = [mdl_id EXCEPT ![l] = 0]
    /\ world_size' = [world_size EXCEPT ![l] = 0]
    /\ job' = [job EXCEPT ![l] = DefaultJob]
    /\ lrec' = [lrec EXCEPT ![l] = NoLaunch]

\* train() returns: the direct call returned or raised; mp.spawn(join=True) saw
\* every process end, or saw one fail and terminated the others
TrainReturn(l) ==
    /\ lpc[l] = "join"
    /\ \/ \A q \in Running(l) : pc[q] = "done"
       \/ \E q \in Running(l) : pc[q] = "failed"
    /\ LeaveRendezvous(l, \A q \in Running(l) : pc[q] = "done")
    /\ SetWorkers(l, {}, 0)
    /\ EndCall(l)
    /\ UNCHANGED <<cfg_files, log_files, ckpt_files, latest, snap, shared_file_path,
                   launches, assigned, written>>
    /\ UNCHANGED lib_vars

\* the run is killed from outside, wherever it is
Abort(l) ==
    /\ lpc[l] # "idle"
    /\ LeaveRendezvous(l, FALSE)
    /\ SetWorkers(l, {}, 0)
    /\ EndCall(l)
    /\ UNCHANGED <<cfg_files, log_files, ckpt_files, latest, snap, shared_file_path,
                   launches, assigned, written>>
    /\ UNCHANGED lib_vars

\* ------------------------------------------------- Erlich._train (worker)

\* the test that leaves groups of two without a process group
NeedsGroup_OffByOne(ws) == ws > 2

\* `if world_size > 1:` around dist.init_process_group
NeedsGroup(ws) == ws > 1

\* the test that holds on every rank
IsMain_EveryRank(r) == r >= 0

\* `if rank == 0:` around the construction of the logger and the saver
IsMain(r) == r = 0

\* dist.init_process_group(init_method=file://shared_file_path, rank, world_size):
\* the worker registers in the store at that path (the file is created) ...
InitGroup(p) ==
    LET l == LauncherOf(p) IN
    /\ pc[p] = "init_group"
    /\ IF NeedsGroup(w_world_size[p])
       THEN /\ group' = [group EXCEPT ![p] = shared_file_path[l]]
            /\ rdv_files' = rdv_files \cup {shared_file_path[l]}
            /\ lrec' = [lrec EXCEPT ![l].joined = @ \cup {rank[p]}]
            /\ pc' = [pc EXCEPT ![p] = "wait_group"]
       ELSE /\ pc' = [pc EXCEPT ![p] = "setup"]
            /\ UNCHANGED <<group, rdv_files, lrec>>
    /\ UNCHANGED <<cfg_files, log_files, ckpt_files, latest, snap, lpc, shared_file_path,
                   mdl_id, world_size, job, launches, assigned, written, rank,
                   w_world_size, logger, saver, model_parts, optimizers, loop_vars,
                   hist_vars, err>>
    /\ UNCHANGED lib_vars

\* ... and returns once all world_size ranks have registered
GroupReady(p) ==
    /\ pc[p] = "wait_group"
    /\ lrec[LauncherOf(p)].joined = 0 .. (w_world_size[p] - 1)
    /\ pc' = [pc EXCEPT ![p] = "setup"]
    /\ UNCHANGED <<fs_vars, launch_vars, setup_vars, loop_vars, hist_vars, err>>
    /\ UNCHANGED lib_vars

\* parts[name].load_state_dict(checkpoint["parts"][load_part_name]) for
\* part.weights = "<model_id>.<load_part_name>[@<load_batch>]"
LoadWeights(part, weights) ==
    LET ref == SplitTag(weights)
        pieces == Split(ref.head, ".")
        loaded == torch_load(pieces[1], ref.tag)
        saved == loaded.checkpoint.parts
        found == {k \in DOMAIN saved : <<k>> = pieces[2]}
    IN IF ref.err # "none" THEN [part |-> part, err |-> ref.err]
       ELSE IF Len(pieces) # 2 THEN [part |-> part, err |-> "ValueError"]
       ELSE IF loaded.err # "none" THEN [part |-> part, err |-> loaded.err]
       ELSE IF found = {} THEN [part |-> part, err |-> "KeyError"]
       ELSE [part |-> [part EXCEPT !.state = saved[CHOOSE k \in found : TRUE].state],
             err |-> "none"]

\* The loop of instantiate_model_parts over cfg.parts, in declaration order.
\* acc is [parts, err]; an exception ends the pass.
RECURSIVE AssemblePass(_, _, _)
AssemblePass(order, parts_cfg, acc) ==
    IF order = <<>> \/ acc.err # "none" THEN acc
    ELSE LET name == Head(order)
             part == parts_cfg[name]
             made == [name |-> name, state |-> 0]
             loaded == IF part.weights # <<>> THEN LoadWeights(made, part.weights)
                       ELSE [part |-> made, err |-> "none"]
             next ==
                 IF part.arch = "absent" THEN [acc EXCEPT !.err = "AssertionError"]
                 ELSE IF loaded.err # "none" THEN [acc EXCEPT !.err = loaded.err]
                 ELSE [acc EXCEPT !.parts = (name :> loaded.part) @@ acc.parts]
         IN AssemblePass(Tail(order), parts_cfg, next)

\* instantiate_model_parts(cfg, device): one part per entry of cfg.parts, with
\* the weights its spec names; [parts, err]
instantiate_model_parts(cfg) ==
    AssemblePass(cfg.order, cfg.parts, [parts |-> EmptyDict, err |-> "none"])

\* manual_seed, device = devices[rank], logger and saver on rank 0 only (the
\* logger opens <id>.log), then instantiate_model_parts
Setup(p) ==
    LET l == LauncherOf(p)
        made == instantiate_model_parts(job[l])
    IN
    /\ pc[p] = "setup"
    /\ IF rank[p] >= job[l].devices
       THEN /\ Raise(p, "IndexError")
            /\ UNCHANGED <<logger, saver, log_files, model_parts>>
       ELSE /\ IF made.err = "none"
               THEN pc' = [pc EXCEPT ![p] = "construct"] /\ UNCHANGED err
               ELSE Raise(p, made.err)
            /\ IF IsMain(rank[p])
               THEN /\ logger' = [logger EXCEPT ![p] = "TrainLogger"]
                    /\ saver' = [saver EXCEPT ![p] = "ModelSaver"]
                    /\ log_files' = log_files \cup {mdl_id[l]}
               ELSE /\ logger' = [logger EXCEPT ![p] = "null"]
                    /\ saver' = [saver EXCEPT ![p] = "null"]
                    /\ UNCHANGED log_files
            /\ model_parts' = [model_parts EXCEPT ![p] = made.parts]
    /\ UNCHANGED <<cfg_files, ckpt_files, latest, snap, rdv_files, launch_vars, rank,
                   w_world_size, group, optimizers, loop_vars, hist_vars>>
    /\ UNCHANGED lib_vars

\* load_state_dicts(model_parts, checkpoint_path, device): every part the
\* snapshot names is loaded into the part of that name; [parts, checkpoint, err]
load_state_dicts(mp, model_id, load_batch) ==
    LET loaded == torch_load(model_id, load_batch)
        saved == loaded.checkpoint.parts
    IN IF loaded.err # "none"
       THEN [parts |-> mp, checkpoint |-> loaded.checkpoint, err |-> loaded.err]
       ELSE [parts |-> [n \in DOMAIN mp |->
                          IF n \in DOMAIN saved THEN [mp[n] EXCEPT !.state = saved[n].state]
                          ELSE mp[n]],
             checkpoint |-> loaded.checkpoint,
             err |-> IF DOMAIN saved \subseteq DOMAIN mp THEN "none" ELSE "KeyError"]

\* `for k in checkpoint["optimizers"]: trainer.optimizers[k].load_state_dict(...)`
load_optimizer_states(opts, checkpoint) ==
    LET saved == checkpoint.optimizers
    IN [optimizers |-> [k \in DOMAIN opts |->
                           IF k \in DOMAIN saved THEN [opts[k] EXCEPT !.state = saved[k].state]
                           ELSE opts[k]],
        err |-> IF DOMAIN saved \subseteq DOMAIN opts THEN "none" ELSE "KeyError"]

\* `"load_optimizers" not in cfg or cfg["load_optimizers"]`
LoadsOptimizers(cfg) == cfg.load_optimizers # "false"

\* the `if "load_checkpoint" in cfg:` block of _train, then create_dataloaders()
LoadCheckpoint(p) ==
    LET cfg == job[LauncherOf(p)]
        ref == get_checkpoint(cfg.load_checkpoint)
        parts == load_state_dicts(model_parts[p], ref.model_id, ref.load_batch)
        opts == load_optimizer_states(optimizers[p], parts.checkpoint)
    IN
    /\ pc[p] = "load_checkpoint"
    /\ IF cfg.load_checkpoint = <<>>
       THEN /\ pc' = [pc EXCEPT ![p] = "optimizers"]
            /\ UNCHANGED <<model_parts, optimizers, err>>
       ELSE IF ref.err # "none"
       THEN Raise(p, ref.err) /\ UNCHANGED <<model_parts, optimizers>>
       ELSE IF parts.err # "none"
       THEN /\ Raise(p, parts.err)
            /\ model_parts' = [model_parts EXCEPT ![p] = parts.parts]
            /\ UNCHANGED optimizers
       ELSE /\ model_parts' = [model_parts EXCEPT ![p] = parts.parts]
            /\ IF LoadsOptimizers(cfg)
               THEN /\ optimizers' = [optimizers EXCEPT ![p] = opts.optimizers]
                    /\ IF opts.err = "none"
                       THEN pc' = [pc EXCEPT ![p] = "optimizers"] /\ UNCHANGED err
                       ELSE Raise(p, opts.err)
               ELSE /\ pc' = [pc EXCEPT ![p] = "optimizers"]
                    /\ UNCHANGED <<optimizers, err>>
    /\ UNCHANGED <<fs_vars, launch_vars, rank, w_world_size, group, logger, saver,
                   loop_vars, hist_vars, lib_vars>>

Worker(p) ==
    \/ InitGroup(p)
    \/ GroupReady(p)
    \/ Setup(p)
    \/ LoadCheckpoint(p)


\* ------------------------------------------------------- specifications

P0 == <<"L1", 0>>

IdleWorkers ==
    /\ pc = [q \in Procs |-> "off"]
    /\ rank = [q \in Procs |-> -1]
    /\ w_world_size = [q \in Procs |-> 0]
    /\ group = [q \in Procs |-> -1]
    /\ logger = [q \in Procs |-> "unset"]
    /\ saver = [q \in Procs |-> "unset"]
    /\ model_parts = [q \in Procs |-> EmptyDict]
    /\ optimizers = [q \in Procs |-> EmptyDict]

\* parse_config has not been called
NoParseConfig ==
    /\ config_folder = EmptyDict
    /\ stored_cfg = EmptyDict
    /\ conf = <<>>

\* no estimator is in use
NoEstimator ==
    /\ est = [avg |-> <<0, 1>>, tot_weight |-> 0, err |-> "none"]
    /\ upd = [calls |-> <<>>, done |-> 0]

NoLibraryCalls == NoParseConfig /\ NoEstimator

FreshLoops ==
    /\ validate_set = [q \in Procs |-> {}]
    /\ epoch = [q \in Procs |-> 0]
    /\ batch_idx = [q \in Procs |-> 0]
    /\ lg = [q \in Procs |-> [batches |-> 0, epochs |-> 0]]
    /\ val_calls = [q \in Procs |-> <<>>]
    /\ val_steps = [q \in Procs |-> 0]
    /\ n_saves = [q \in Procs |-> 0]
    /\ last_save = [q \in Procs |-> NoSaveYet]
    /\ ev = [q \in Procs |-> <<>>]
    /\ err = [q \in Procs |-> "none"]

\* Erlich objects that have launched nothing, an empty model folder, and the
\* rendezvous paths unrelated runs have left
Init ==
    /\ cfg_files = [id \in Ids |-> 0]
    /\ log_files = {}
    /\ ckpt_files = {}
    /\ latest = [id \in Ids |-> <<>>]
    /\ snap = EmptyDict
    /\ rdv_files \in SUBSET (0 .. (MaxMarkers - 1))
    /\ lpc = [l \in Launchers |-> "idle"]
    /\ shared_file_path = [l \in Launchers |-> 0]
    /\ mdl_id = [l \in Launchers |-> 0]
    /\ world_size = [l \in Launchers |-> 0]
    /\ job = [l \in Launchers |-> DefaultJob]
    /\ lrec = [l \in Launchers |-> NoLaunch]
    /\ launches = 0
    /\ assigned = <<>>
    /\ written = {}
    /\ IdleWorkers
    /\ FreshLoops
    /\ NoLibraryCalls

Launcher(l) ==
    \/ \E j \in LaunchJobs : TrainGetId(l, j)
    \/ TrainSaveConfig(l)
    \/ TrainRetryPath(l)
    \/ TrainSpawn(l)
    \/ TrainDirect(l)
    \/ TrainReturn(l)
    \/ Abort(l)

\* launches one after the other from one process
Next ==
    \/ Launcher("L1")
    \/ \E i \in Slots : Worker(<<"L1", i>>)
    \/ \E i \in Slots : Trainer(<<"L1", i>>)

Spec == Init /\ [][Next]_vars

\* Two processes that call Erlich.train on the same model folder at the same
\* time, each on one device: train() takes its else branch and runs _train in
\* the calling process, which joins no process group.
ConcurrentJobs == {MakeJob(1, 1, 3, -1, 1, 0, <<"A", "B", "C">>, DefaultParts, "adam")}

ConcurrentLauncher(l) ==
    \/ \E j \in ConcurrentJobs : TrainGetId(l, j)
    \/ TrainSaveConfig(l)
    \/ TrainDirect(l)
    \/ TrainReturn(l)
    \/ Abort(l)

DirectWorker(p) ==
    \/ InitGroup(p)
    \/ Setup(p)
    \/ LoadCheckpoint(p)

ConcurrentNext ==
    \E l \in Launchers :
       \/ ConcurrentLauncher(l)
       \/ DirectWorker(<<l, 0>>)
       \/ Trainer(<<l, 0>>)

SpecConcurrent == Init /\ [][ConcurrentNext]_vars

\* One trainer, as _train has built it in a single-device run of model 0, just
\* before trainer_class(...) is called; the saver and the logger handed to the
\* constructor are drawn freely.
TrainerInit ==
    /\ cfg_files = [id \in Ids |-> IF id = 0 THEN 1 ELSE 0]
    /\ log_files = {}
    /\ ckpt_files = {}
    /\ latest = [id \in Ids |-> <<>>]
    /\ snap = EmptyDict
    /\ rdv_files = {}
    /\ lpc = [l \in Launchers |-> IF l = "L1" THEN "join" ELSE "idle"]
    /\ shared_file_path = [l \in Launchers |-> 0]
    /\ mdl_id = [l \in Launchers |-> 0]
    /\ world_size = [l \in Launchers |-> IF l = "L1" THEN 1 ELSE 0]
    /\ \E j \in TrainerJobs : job = [l \in Launchers |-> IF l = "L1" THEN j ELSE DefaultJob]
    /\ lrec = [l \in Launchers |-> IF l = "L1" THEN [NoLaunch EXCEPT !.no = 1, !.direct = 1]
                                   ELSE NoLaunch]
    /\ launches = 1
    /\ assigned = <<0>>
    /\ written = {}
    /\ pc = [q \in Procs |-> IF q = P0 THEN "construct" ELSE "off"]
    /\ rank = [q \in Procs |-> IF q = P0 THEN 0 ELSE -1]
    /\ w_world_size = [q \in Procs |-> IF q = P0 THEN 1 ELSE 0]
    /\ group = [q \in Procs |-> -1]
    /\ \E lgr \in {"null", "TrainLogger"} :
          logger = [q \in Procs |-> IF q = P0 THEN lgr ELSE "unset"]
    /\ \E svr \in {"null", "ModelSaver"} :
          saver = [q \in Procs |-> IF q = P0 THEN svr ELSE "unset"]
    /\ model_parts = [q \in Procs |-> IF q = P0 THEN instantiate_model_parts(job["L1"]).parts
                                      ELSE EmptyDict]
    /\ optimizers = [q \in Procs |-> EmptyDict]
    /\ FreshLoops
    /\ NoLibraryCalls

TrainerNext == Trainer(P0) \/ LoadCheckpoint(P0)

SpecTrainer == TrainerInit /\ [][TrainerNext]_vars

\* One trainer about to run instantiate_optimizers on a configuration of
\* parts, with or without cfg.apex and the apex package
TrainerOnParts(apex) ==
    /\ cfg_files = [id \in Ids |-> IF id = 0 THEN 1 ELSE 0]
    /\ log_files = {0}
    /\ ckpt_files = {}
    /\ latest = [id \in Ids |-> <<>>]
    /\ snap = EmptyDict
    /\ rdv_files = {}
    /\ lpc = [l \in Launchers |-> IF l = "L1" THEN "join" ELSE "idle"]
    /\ shared_file_path = [l \in Launchers |-> 0]
    /\ mdl_id = [l \in Launchers |-> 0]
    /\ world_size = [l \in Launchers |-> IF l = "L1" THEN 1 ELSE 0]
    /\ \E k \in 0 .. MaxParts : \E parts \in [FirstNames(k) -> PartSpecs] :
          \E opt \in {"adam", "lamb"} :
             job = [l \in Launchers |->
                      IF l = "L1"
                      THEN [MakeJob(1, 1, 1, -1, -1, 0, SubSeq(PartNames, 1, k), parts, opt)
                               EXCEPT !.apex = apex]
                      ELSE DefaultJob]
    /\ lrec = [l \in Launchers |-> IF l = "L1" THEN [NoLaunch EXCEPT !.no = 1, !.direct = 1]
                                   ELSE NoLaunch]
    /\ launches = 1
    /\ assigned = <<0>>
    /\ written = {}
    /\ pc = [q \in Procs |-> IF q = P0 THEN "optimizers" ELSE "off"]
    /\ rank = [q \in Procs |-> IF q = P0 THEN 0 ELSE -1]
    /\ w_world_size = [q \in Procs |-> IF q = P0 THEN 1 ELSE 0]
    /\ group = [q \in Procs |-> -1]
    /\ logger = [q \in Procs |-> IF q = P0 THEN "TrainLogger" ELSE "unset"]
    /\ saver = [q \in Procs |-> IF q = P0 THEN "ModelSaver" ELSE "unset"]
    /\ model_parts = [q \in Procs |-> IF q = P0 THEN instantiate_model_parts(job["L1"]).parts
                                      ELSE EmptyDict]
    /\ optimizers = [q \in Procs |-> EmptyDict]
    /\ FreshLoops
    /\ NoLibraryCalls

OptimInit == TrainerOnParts(FALSE)

OptimNext == InstantiateOptimizers(P0)

SpecOptim == OptimInit /\ [][OptimNext]_vars

\* the same trainer with mixed precision, up to the entry of its loops
ApexInit == TrainerOnParts(TRUE)

ApexNext == InstantiateOptimizers(P0) \/ TrainBegin(P0)

SpecApex == ApexInit /\ [][ApexNext]_vars


\* ------------------------------------------------ parse_config on its own

\* no Erlich.train call has been made and none is made
NoRuns ==
    /\ cfg_files = [id \in Ids |-> 0]
    /\ log_files = {}
    /\ ckpt_files = {}
    /\ latest = [id \in Ids |-> <<>>]
    /\ snap = EmptyDict
    /\ rdv_files = {}
    /\ lpc = [l \in Launchers |-> "idle"]
    /\ shared_file_path = [l \in Launchers |-> 0]
    /\ mdl_id = [l \in Launchers |-> 0]
    /\ world_size = [l \in Launchers |-> 0]
    /\ job = [l \in Launchers |-> DefaultJob]
    /\ lrec = [l \in Launchers |-> NoLaunch]
    /\ launches = 0
    /\ assigned = <<>>
    /\ written = {}
    /\ IdleWorkers
    /\ FreshLoops

\* the configurations a.yaml and b.yaml that `load` lists name; there is no
\* missing.yaml
ConfigNames == {"a", "b", "missing"}

ConfigA ==
    (<<"epochs">> :> 1) @@ (<<"lr">> :> 1) @@ (<<"parts", "A", "arch">> :> <<"res">>)

ConfigB ==
    (<<"epochs">> :> 2) @@ (<<"lr">> :> 2) @@ (<<"batch_size">> :> 4)
    @@ (<<"parts", "A", "arch">> :> <<"dense">>)

LoadLists == UNION {[1 .. n -> ConfigNames] : n \in 0 .. MaxLoads}

\* the load references of a part: "5.enc@2.0", "5.enc", "5.dec", "7.enc", "5",
\* "5.enc@2@0"
LoadRefs ==
    {<<"5", ".", "enc", "@", "2", ".", "0">>, <<"5", ".", "enc">>, <<"5", ".", "dec">>,
     <<"7", ".", "enc">>, <<"5">>, <<"5", ".", "enc", "@", "2", "@", "0">>}

\* a key that is absent or has one of `values`
Optional(key, values) == {EmptyDict} \cup {key :> v : v \in values}

\* the configurations base.yaml can hold
BaseConfigs ==
    {l @@ e @@ b @@ v @@ a @@ pl @@ pw :
        l \in Optional(<<"load">>, LoadLists),
        e \in Optional(<<"epochs">>, {3}),
        b \in Optional(<<"batch_size">>, {8}),
        v \in Optional(<<"validation_batch_size">>, {5}),
        a \in Optional(<<"parts", "A", "arch">>, {<<"net">>}),
        pl \in Optional(<<"parts", "A", "load">>, LoadRefs),
        pw \in Optional(<<"parts", "A", "weights">>, {<<"9", ".", "x">>})}

\* 5.yaml in the model folder, the resolved configuration of model 5: its part
\* enc was built from scratch, or took its weights from model 3
StoredConfigs ==
    {w @@ (<<"parts", "enc", "arch">> :> <<"conv">>) @@ (<<"parts", "enc", "frozen">> :> 1)
       @@ (<<"batch_size">> :> 16) @@ (<<"epochs">> :> 10)
       @@ (<<"validation_batch_size">> :> 32) :
        w \in Optional(<<"parts", "enc", "weights">>,
                       {<<"3", ".", "enc", "@", "latest">>})}

\* the names and the overrides parse_config is called with
CallNames == {<<"base">>, <<"base", ".yaml">>, <<"nofile">>}

Overrides ==
    {<<>>,
     <<[key |-> <<"epochs">>, value |-> 9]>>,
     <<[key |-> <<"parts", ".", "A", ".", "weights">>, value |-> <<"6", ".", "y">>],
       [key |-> <<"epochs">>, value |-> 7], [key |-> <<"epochs">>, value |-> 9]>>}

ConfigInit ==
    /\ NoRuns
    /\ NoEstimator
    /\ \E base \in BaseConfigs :
          config_folder = (<<"base">> :> base) @@ (<<"a">> :> ConfigA) @@ (<<"b">> :> ConfigB)
    /\ \E stored \in StoredConfigs : stored_cfg = (<<"5">> :> stored)
    /\ conf = <<>>

\* a call parse_config(name, additional)
ParseConfig(name, additional) ==
    /\ conf = <<>>
    /\ conf' = <<[name |-> name, additional |-> additional,
                  out |-> parse_config(name, additional).conf,
                  err |-> parse_config(name, additional).err]>>
    /\ UNCHANGED <<fs_vars, launch_vars, pc, setup_vars, loop_vars, hist_vars, err,
                   config_folder, stored_cfg, est, upd>>

ConfigNext == \E name \in CallNames, additional \in Overrides : ParseConfig(name, additional)

SpecConfig == ConfigInit /\ [][ConfigNext]_vars

\* ------------------------------------------------------------ AvgEstimator
\* The estimator's numbers are exact fractions <<numerator, denominator>> in
\* lowest terms with a positive denominator; observations and weights are
\* Python numbers.

Abs(i) == IF i < 0 THEN -i ELSE i

RECURSIVE Gcd(_, _)
Gcd(a, b) == IF b = 0 THEN a ELSE Gcd(b, a % b)

Frac(n, d) ==
    LET g == Gcd(Abs(n), Abs(d))
        sgn == IF d < 0 THEN -1 ELSE 1
    IN <<sgn * (n \div g), sgn * (d \div g)>>

\* AvgEstimator(): avg = 0.0, tot_weight = 0.0
AvgEstimator == [avg |-> <<0, 1>>, tot_weight |-> 0, err |-> "none"]

\* an update whose increment forgets the weight
AvgEstimator_update_Unweighted(e, x, w) ==
    LET tot == e.tot_weight + w
    IN IF tot = 0
       THEN [e EXCEPT !.tot_weight = tot, !.err = "ZeroDivisionError"]
       ELSE [e EXCEPT !.tot_weight = tot,
                      !.avg = Frac(e.avg[1] * tot + (x * e.avg[2] - e.avg[1]),
                                   e.avg[2] * tot)]

\* an update that keeps the average instead of dividing by a zero total
AvgEstimator_update_Silent(e, x, w) ==
    LET tot == e.tot_weight + w
    IN IF tot = 0
       THEN [e EXCEPT !.tot_weight = tot]
       ELSE [e EXCEPT !.tot_weight = tot,
                      !.avg = Frac(e.avg[1] * tot + (x * e.avg[2] - e.avg[1]) * w,
                                   e.avg[2] * tot)]

\* update(x, w): tot_weight += w; avg += (x - avg) * w / tot_weight.
\* With avg = n/d the new average is (n*tot + (x*d - n)*w) / (d*tot); a zero
\* tot_weight makes the division raise, after tot_weight was assigned.
AvgEstimator_update(e, x, w) ==
    LET tot == e.tot_weight + w
    IN IF tot = 0
       THEN [e EXCEPT !.tot_weight = tot, !.err = "ZeroDivisionError"]
       ELSE [e EXCEPT !.tot_weight = tot,
                      !.avg = Frac(e.avg[1] * tot + (x * e.avg[2] - e.avg[1]) * w,
                                   e.avg[2] * tot)]

\* get()
AvgEstimator_get(e) == e.avg

\* the observations and weights of the calls
Observations == 0 .. MaxValue
Weights == 0 .. MaxWeight
Calls == [x : Observations, w : Weights]

RECURSIVE SeqsUpTo(_, _)
SeqsUpTo(S, n) ==
    IF n = 0 THEN {<<>>}
    ELSE LET shorter == SeqsUpTo(S, n - 1)
         IN shorter \cup {Append(q, c) : q \in {r \in shorter : Len(r) = n - 1}, c \in S}

\* a fresh estimator and the calls its user is going to make
EstimatorInit ==
    /\ NoRuns
    /\ NoParseConfig
    /\ est = AvgEstimator
    /\ \E calls \in SeqsUpTo(Calls, MaxUpdates) : upd = [calls |-> calls, done |-> 0]

\* the next call update(x, w); an exception ends the sequence
Update ==
    /\ est.err = "none"
    /\ upd.done < Len(upd.calls)
    /\ LET c == upd.calls[upd.done + 1]
       IN est' = AvgEstimator_update(est, c.x, c.w)
    /\ upd' = [upd EXCEPT !.done = upd.done + 1]
    /\ UNCHANGED <<fs_vars, launch_vars, pc, setup_vars, loop_vars, hist_vars, err,
                   config_folder, stored_cfg, conf>>

EstimatorNext == Update

SpecEstimator == EstimatorInit /\ [][EstimatorNext]_vars

\* ------------------------------------------- BaseTrainer.validate, metrics
\* The pass of validate() over the validation dataloader with the values of
\* the metrics: `upd` holds what validation_step returns batch by batch, `est`
\* the dict `estimators`.  (In the training loop above a batch whose
\* processing raises, in validation_step or in an estimator, is a result that
\* is not ok.)

\* w = float(metrics.get("weight", 1.0))
BatchWeight(metrics) == IF "weight" \in DOMAIN metrics THEN metrics["weight"] ELSE 1

\* the loop over the keys that leaves the "weight" entry out
FeedMetrics_SkipsWeight(estimators, metrics) ==
    LET w == BatchWeight(metrics)
        fed == DOMAIN metrics \ {"weight"}
        before(k) == IF k \in DOMAIN estimators THEN estimators[k] ELSE AvgEstimator
    IN [k \in DOMAIN estimators \cup fed |->
           IF k \in fed THEN AvgEstimator_update(before(k), metrics[k], w)
           ELSE estimators[k]]

\* for k in metrics: a new AvgEstimator for a key not seen yet, then
\* estimators[k].update(metrics[k], w)
FeedMetrics(estimators, metrics) ==
    LET w == BatchWeight(metrics)
        before(k) == IF k \in DOMAIN estimators THEN estimators[k] ELSE AvgEstimator
    IN [k \in DOMAIN estimators \cup DOMAIN metrics |->
           IF k \in DOMAIN metrics THEN AvgEstimator_update(before(k), metrics[k], w)
           ELSE estimators[k]]

\* what validation_step can return: a loss or none, a weight or none
MetricDicts ==
    {(IF x >= 0 THEN "loss" :> x ELSE EmptyDict) @@ (IF w >= 0 THEN "weight" :> w ELSE EmptyDict) :
        x \in {-1} \cup Observations, w \in {-1} \cup Weights}

\* validate() is entered with a validation dataloader of up to MaxValBatches
\* batches
ValidateInit ==
    /\ NoRuns
    /\ NoParseConfig
    /\ est = [estimators |-> EmptyDict, err |-> "none", reduced |-> FALSE, saved |-> EmptyDict]
    /\ \E results \in SeqsUpTo(MetricDicts, MaxValBatches) :
          upd = [calls |-> results, done |-> 0]

\* one batch of the validation dataloader
ValidationBatch ==
    /\ est.err = "none"
    /\ upd.done < Len(upd.calls)
    /\ LET fed == FeedMetrics(est.estimators, upd.calls[upd.done + 1])
       IN est' = [est EXCEPT !.estimators = fed,
                             !.err = IF \E k \in DOMAIN fed : fed[k].err # "none"
                                     THEN "ZeroDivisionError" ELSE "none"]
    /\ upd' = [upd EXCEPT !.done = upd.done + 1]
    /\ UNCHANGED <<fs_vars, launch_vars, pc, setup_vars, loop_vars, hist_vars, err,
                   config_folder, stored_cfg, conf>>

\* estimators = {k: estimators[k].get() for k in estimators}, handed to
\* self.saver.save as the metrics
ValidationReduce ==
    /\ est.err = "none"
    /\ ~est.reduced
    /\ upd.done = Len(upd.calls)
    /\ est' = [est EXCEPT !.reduced = TRUE,
                          !.saved = [k \in DOMAIN est.estimators |->
                                        AvgEstimator_get(est.estimators[k])]]
    /\ UNCHANGED <<fs_vars, launch_vars, pc, setup_vars, loop_vars, hist_vars, err,
                   config_folder, stored_cfg, conf, upd>>

ValidateNext == ValidationBatch \/ ValidationReduce

SpecValidate == ValidateInit /\ [][ValidateNext]_vars

\* ------------------------------------------------------------ properties

Range(q) == {q[i] : i \in DOMAIN q}
TheJob == job["L1"]

\* the batch indices after which worker p called validate mid-epoch in epoch e
MidValidated(p, e) == {c[2] : c \in {d \in Range(val_calls[p]) : d[1] = e /\ d[3]}}

\* the end-of-epoch validate calls of worker p, in order
EndCalls(p) == SelectSeq(val_calls[p], LAMBDA c : ~c[3])

\* epoch e of worker p has had its end-of-epoch validate call
EpochClosed(p, e) == \E c \in Range(val_calls[p]) : c[1] = e /\ ~c[3]

\* {k*v : k >= 1 and k*v < n} minus {n-1}
ClaimedTriggers(v, n) == {i \in 1 .. (n - 1) : i % v = 0} \ {n - 1}

\* C1: with validate_every = v > 0 on n batches, mid-epoch validation happens
\* exactly after the batches {k*v : k >= 1, k*v < n} \ {n-1} of every epoch
\* (never after another batch, and after all of them once the epoch has
\* reached its end); for n = 10, v = 3 the set is {3, 6}; with v = -1 no
\* mid-epoch validation happens, only the end-of-epoch ones.
C1_TriggerSet ==
    LET v == TheJob.validate_every
        n == TheJob.batches
        want == IF v > 0 THEN ClaimedTriggers(v, n) ELSE {}
    IN /\ ValidateEvery(3, 10) = {3, 6}
       /\ (v > 0 \/ v = -1) =>
             \A e \in 0 .. MaxEpochs :
                /\ MidValidated(P0, e) \subseteq want
                /\ EpochClosed(P0, e) => MidValidated(P0, e) = want
                /\ e = epoch[P0] /\ pc[P0] \in {"zero_grad", "train_step", "backward",
                                                "opt_step", "log_batch", "check_validate"}
                   => MidValidated(P0, e) = {i \in want : i < batch_idx[P0]}

\* validate_every = 1 on three batches: validated after batch 1, not after batch 2
C1_Witness ==
    /\ TheJob.validate_every = 1 /\ TheJob.batches = 3
    /\ pc[P0] = "done"
    /\ MidValidated(P0, 0) = {1}

\* the claim's parts: frozen A, B with its own optimizer, C and D with none
ExampleParts ==
    ("A" :> [frozen |-> "true", optimizer |-> "absent", arch |-> "net", weights |-> <<>>])
    @@ ("B" :> [frozen |-> "false", optimizer |-> "sgd", arch |-> "net", weights |-> <<>>])
    @@ ("C" :> [frozen |-> "absent", optimizer |-> "absent", arch |-> "net", weights |-> <<>>])
    @@ ("D" :> [frozen |-> "absent", optimizer |-> "absent", arch |-> "net", weights |-> <<>>])

ExampleJob == MakeJob(1, 1, 1, -1, -1, 0, <<"A", "B", "C", "D">>, ExampleParts, "adam")

ExampleOptimizers ==
    instantiate_optimizers(ExampleJob, instantiate_model_parts(ExampleJob).parts,
                           EmptyDict).optimizers

CoveredBy(opts) == UNION {opts[k].params : k \in DOMAIN opts}

\* C2: when instantiate_optimizers returns, the keys of the optimizers are the
\* names of the non-frozen parts that declare an optimizer, plus "__global" iff
\* some non-frozen part declares none; a dedicated optimizer holds its own
\* part's parameters, the global one the parameters of the non-frozen parts
\* without optimizer, and no parameter of a frozen part is in any optimizer.
\* For A frozen, B with optimizer, C and D without, the keys are {B, __global}.
\* (Part names are not the reserved key "__global".)
C2_OptimizerKeys ==
    LET parts == TheJob.parts
        mp == model_parts[P0]
        opts == optimizers[P0]
        own == {n \in DOMAIN parts : parts[n].frozen # "true" /\ parts[n].optimizer # "absent"}
        pooled == {n \in DOMAIN parts : parts[n].frozen # "true" /\ parts[n].optimizer = "absent"}
        frozen == {n \in DOMAIN parts : parts[n].frozen = "true"}
    IN /\ DOMAIN ExampleOptimizers = {"B", "__global"}
       /\ ExampleOptimizers["__global"].params
             = Parameters([name |-> "C"]) \cup Parameters([name |-> "D"])
       /\ pc[P0] = "train" =>
             /\ DOMAIN opts = own \cup (IF pooled # {} THEN {"__global"} ELSE {})
             /\ \A n \in own : opts[n].params = Parameters(mp[n])
             /\ pooled # {} =>
                   opts["__global"].params = UNION {Parameters(mp[n]) : n \in pooled}
             /\ \A n \in frozen : Parameters(mp[n]) \cap CoveredBy(opts) = {}

\* a frozen part that declares an optimizer, a part with its own, a part with none
C2_Witness ==
    /\ pc[P0] = "train"
    /\ TheJob.order = <<"A", "B", "C">>
    /\ TheJob.parts["A"] = [frozen |-> "true", optimizer |-> "sgd", arch |-> "net", weights |-> <<>>]
    /\ TheJob.parts["B"] = [frozen |-> "false", optimizer |-> "sgd", arch |-> "net", weights |-> <<>>]
    /\ TheJob.parts["C"] = [frozen |-> "absent", optimizer |-> "absent", arch |-> "net", weights |-> <<>>]
    /\ DOMAIN optimizers[P0] = {"B", "__global"}

Saved(i) == \E w \in written : w[1] = i

\* C3 as stated: no model ID is given to two different launches
C3_IdsNeverReused ==
    \A i, k \in DOMAIN assigned : i # k => assigned[i] # assigned[k]

\* C3 amended: an ID under which a launch has saved a checkpoint is never
\* returned by get_next_id again; the ID of a launch that ended before it saved
\* any checkpoint is returned again to the next launch.
C3_SavedIdsNeverReused ==
    /\ \A i, k \in DOMAIN assigned : i < k /\ Saved(i) => assigned[i] # assigned[k]
    /\ \A i \in DOMAIN assigned :
          i + 1 \in DOMAIN assigned /\ ~Saved(i) => assigned[i + 1] = assigned[i]

\* the first launch saved a checkpoint, the second one got the next ID
C3_Witness ==
    /\ Len(assigned) >= 2
    /\ Saved(1)
    /\ assigned[2] = assigned[1] + 1

PastSetup(q) ==
    pc[q] \notin {"off", "init_group", "wait_group", "setup"} /\ err[q] # "IndexError"

\* C4: only a worker of rank 0 holds a logger or a saver; a worker of rank > 0
\* that is past their construction holds null for both; no snapshot was ever
\* written by a rank > 0.
C4_RankZeroOnly ==
    /\ \A q \in Procs :
          logger[q] = "TrainLogger" \/ saver[q] = "ModelSaver" => rank[q] = 0
    /\ \A q \in Procs :
          rank[q] > 0 /\ PastSetup(q) => logger[q] = "null" /\ saver[q] = "null"
    /\ \A w \in written : w[2] = 0

\* rank 0 has saved a snapshot while a rank > 0 holds null for both
C4_Witness ==
    \E q, r \in Procs :
       /\ rank[q] = 0 /\ n_saves[q] > 0 /\ saver[q] = "ModelSaver"
       /\ rank[r] > 0 /\ saver[r] = "null" /\ logger[r] = "null"

\* C5 as stated: on a worker whose saver is null, a validation point raises no
\* error from the save (the worker goes on).
C5_NullSaverSaveIsNoOp ==
    \A q \in Procs :
       saver[q] = "null" /\ val_calls[q] # <<>> => err[q] # "AttributeError"

\* the least k >= 0 with start + k not in files, added to start
LeastUnused(start, files) ==
    start + Min({k \in 0 .. Cardinality(files) : start + k \notin files})

C7_SpawnAndBarrier ==
    \A l \in Launchers :
       lpc[l] = "join" /\ job[l].devices > 1 =>
          /\ lrec[l].spawned = job[l].devices
          /\ lrec[l].direct = 0
          /\ Cardinality(Running(l)) = job[l].devices
          /\ \A q, r \in Running(l) : q # r => rank[q] # rank[r]
          /\ {rank[q] : q \in Running(l)} = 0 .. (world_size[l] - 1)
          /\ \A q \in Running(l) : group[q] \in {-1, shared_file_path[l]}
          /\ \A q \in Running(l) :
                pc[q] \notin {"init_group", "wait_group"} =>
                   /\ \A r \in Running(l) : group[r] = shared_file_path[l]
                   /\ lrec[l].joined = 0 .. (world_size[l] - 1)

\* two workers, both through the group initialization
C7_Witness ==
    \E l \in Launchers :
       /\ lpc[l] = "join" /\ world_size[l] = 2
       /\ \A q \in Running(l) : pc[q] = "construct"
       /\ Cardinality(Running(l)) = 2

\* C8: in a launch on exactly one device the worker body runs once, in the
\* calling process, as rank 0 of world size 1; nothing is spawned, no process
\* group is initialized, and the rendezvous path is neither checked nor changed.
C8_SingleDevice ==
    \A l \in Launchers :
       /\ lpc[l] = "direct" => job[l].devices <= 1 /\ Running(l) = {}
       /\ lpc[l] \in {"direct", "join"} /\ job[l].devices = 1 =>
             /\ lrec[l].spawned = 0
             /\ lrec[l].direct = (IF lpc[l] = "join" THEN 1 ELSE 0)
             /\ Running(l) = (IF lpc[l] = "join" THEN {<<l, 0>>} ELSE {})
             /\ \A q \in Running(l) :
                   rank[q] = 0 /\ w_world_size[q] = 1 /\ group[q] = -1
             /\ lrec[l].joined = {}
             /\ ~lrec[l].checked
             /\ lrec[l].retries = 0
             /\ shared_file_path[l] = lrec[l].start_path
             /\ rdv_files = lrec[l].start_rdv

\* a single-device run that trained to the end in the calling process
C8_Witness ==
    \E l \in Launchers :
       /\ lpc[l] = "join" /\ job[l].devices = 1
       /\ pc[<<l, 0>>] = "done"
       /\ n_saves[<<l, 0>>] > 0

\* C9: every validate() call that returns has gone through saver.save exactly
\* once (the calls and the saves are equal in number, one short only while the
\* call that raised is the last), with the trainer's parts and optimizers and
\* the call's epoch and batch, with or without a validation dataloader; without
\* one no validation_step is called and the metrics saved are empty.
C9_ValidateAlwaysSaves ==
    LET calls == val_calls[P0]
        last == calls[Len(calls)]
    IN /\ pc[P0] # "failed" => n_saves[P0] = Len(calls)
       /\ n_saves[P0] \in {Len(calls), Len(calls) - 1}
       /\ n_saves[P0] = Len(calls) /\ calls # <<>> =>
             /\ last_save[P0].epoch = last[1]
             /\ last_save[P0].batch = last[2]
             /\ last_save[P0].parts = model_parts[P0]
             /\ last_save[P0].optimizers = optimizers[P0]
             /\ <<mdl_id["L1"], last[1], last[2]>> \in ckpt_files
       /\ TheJob.val_batches = -1 =>
             /\ val_steps[P0] = 0
             /\ last_save[P0].metrics = {}
       /\ TheJob.val_batches >= 0 /\ pc[P0] # "failed" =>
             val_steps[P0] = Len(calls) * TheJob.val_batches

\* a run without validation data that saved at every validation point
C9_Witness ==
    /\ pc[P0] = "done"
    /\ TheJob.val_batches = -1
    /\ Len(val_calls[P0]) > 2
    /\ n_saves[P0] = Len(val_calls[P0])

\* C10 as stated: the end-of-epoch checkpoint is labelled with the final batch
\* index of the epoch, n - 1
C10_LabelIsFinalBatchIndex ==
    \A i \in DOMAIN val_calls[P0] :
       ~val_calls[P0][i][3] /\ TheJob.batches > 0 =>
          val_calls[P0][i][2] = TheJob.batches - 1

\* C10 amended: at the end of every epoch e, after all n batches of the epoch
\* were stepped and the logger's epoch counter was advanced, validation runs
\* exactly once, unconditionally, and its checkpoint is labelled with epoch e
\* and the batch count n = len(dataloader), one more than the final batch index.
C10_EndOfEpochValidation ==
    LET ends == EndCalls(P0)
        n == TheJob.batches
    IN /\ \A i \in DOMAIN ends : ends[i] = <<i - 1, n, FALSE>>
       /\ Len(ends) = lg[P0].epochs - (IF pc[P0] = "end_validate" THEN 1 ELSE 0)
       /\ pc[P0] = "end_validate" =>
             /\ lg[P0].epochs = epoch[P0] + 1
             /\ lg[P0].batches = (epoch[P0] + 1) * n
       /\ pc[P0] = "done" => Len(ends) = TheJob.epochs
       /\ \A i \in DOMAIN ends :
             i < Len(ends) \/ pc[P0] # "failed" => <<mdl_id["L1"], i - 1, n>> \in ckpt_files

\* two epochs of two batches: checkpoints labelled (0, 2) and (1, 2)
C10_Witness ==
    /\ pc[P0] = "done"
    /\ TheJob.epochs = 2 /\ TheJob.batches = 2
    /\ {<<0, 0, 2>>, <<0, 1, 2>>} \subseteq ckpt_files

\* worker q is past the checkpoint block of _train and has not begun a batch
BeforeFirstBatch(q) ==
    /\ pc[q] \notin {"off", "init_group", "wait_group", "setup", "construct",
                     "load_checkpoint", "failed"}
    /\ ev[q] = <<>>

\* C11: in a run whose load_checkpoint names a snapshot an earlier run saved
\* (load_optimizers not false, the snapshot's parts being parts of this run),
\* the checkpoint block raises no KeyError, and before the first training batch
\* every part the snapshot names holds the saved part state and every optimizer
\* the snapshot keys exists and holds the saved optimizer state.
C11_ResumeRoundTrip ==
    \A q \in Procs :
       LET cfg == job[LauncherOf(q)]
           ref == get_checkpoint(cfg.load_checkpoint)
           saved == torch_load(ref.model_id, ref.load_batch)
           parts == saved.checkpoint.parts
           opts == saved.checkpoint.optimizers
       IN /\ pc[q] # "off" /\ cfg.load_checkpoint # <<>> /\ LoadsOptimizers(cfg)
          /\ ref.err = "none" /\ saved.err = "none"
          /\ DOMAIN parts \subseteq DOMAIN model_parts[q]
          => /\ err[q] # "KeyError"
             /\ BeforeFirstBatch(q) =>
                   /\ \A n \in DOMAIN parts : model_parts[q][n].state = parts[n].state
                   /\ DOMAIN opts \subseteq DOMAIN optimizers[q]
                   /\ \A k \in DOMAIN opts : optimizers[q][k].state = opts[k].state

\* C12: a worker that fails on an assembly error (a part without architecture
\* identifier, a part whose weights name a missing snapshot or a part the
\* snapshot lacks) belongs to a launch that has spawned no process and whose
\* rendezvous path nobody has joined.
C12_AssemblyFailsBeforeSpawn ==
    \A q \in Procs :
       LET l == LauncherOf(q) IN
       /\ err[q] \in {"AssertionError", "FileNotFoundError", "KeyError"}
       /\ job[l].load_checkpoint = <<>>
       => /\ lrec[l].spawned = 0
          /\ lrec[l].joined = {}
          /\ group[q] = -1

\* the parse_config call made, and the configuration file it names
TheCall == conf[1]
CallBase == config_folder[StripYaml(TheCall.name)]

\* the entries of the overrides that set key k
OverrideEntries(k) ==
    {i \in DOMAIN TheCall.additional : DotKey(TheCall.additional[i].key) = k}

\* the `load` list in effect, and the positions in it of the configurations
\* that define key k
CallLoads ==
    IF OverrideEntries(<<"load">>) # {}
    THEN TheCall.additional[Max(OverrideEntries(<<"load">>))].value
    ELSE IF <<"load">> \in DOMAIN CallBase THEN CallBase[<<"load">>] ELSE <<>>

LoadsDefining(k) == {i \in DOMAIN CallLoads : k \in DOMAIN config_folder[<<CallLoads[i]>>]}

IsLoadKey(k) == k[Len(k)] = "load"

\* every key some source defines, the load keys apart
DefinedKeys ==
    {k \in {DotKey(TheCall.additional[i].key) : i \in DOMAIN TheCall.additional}
            \cup DOMAIN CallBase
            \cup UNION {DOMAIN config_folder[<<CallLoads[i]>>] : i \in DOMAIN CallLoads} :
        ~IsLoadKey(k)}

\* C13: in the configuration parse_config returns, every key has the value of
\* the last override that sets it, else the value of the named base
\* configuration, else the value of the last configuration of the `load` list
\* that defines it; there is no top-level `load` key.  (The `load` keys
\* themselves are removed by the resolution.)
C13_MergePrecedence ==
    conf # <<>> /\ TheCall.err = "none" =>
       LET out == TheCall.out IN
       /\ <<"load">> \notin DOMAIN out
       /\ \A k \in DefinedKeys :
             /\ k \in DOMAIN out
             /\ out[k] =
                   IF OverrideEntries(k) # {}
                   THEN TheCall.additional[Max(OverrideEntries(k))].value
                   ELSE IF k \in DOMAIN CallBase THEN CallBase[k]
                   ELSE config_folder[<<CallLoads[Max(LoadsDefining(k))]>>][k]

\* load: [a, b] with epochs from both and from nothing else: b's value; lr too
C13_Witness ==
    /\ conf # <<>> /\ TheCall.err = "none"
    /\ TheCall.additional = <<>>
    /\ CallLoads = <<"a", "b">>
    /\ <<"epochs">> \notin DOMAIN CallBase
    /\ <<"batch_size">> \in DOMAIN CallBase
    /\ TheCall.out[<<"epochs">>] = 2
    /\ TheCall.out[<<"batch_size">>] = 8

\* "M.P" as "M.P@latest"
FullRef(ref) == IF Contains(ref, "@") THEN ref ELSE ref \o <<"@", "latest">>

\* C14: every part whose own spec declares load = "M.P@T" (or "M.P", T being
\* "latest") and no weights has, in the resolved configuration, weights
\* "M.P@T" and no `load` key, whatever the stored spec of the source part holds.
C14_InheritedWeights ==
    conf # <<>> /\ TheCall.err = "none" =>
       LET own == LoadAndMerge(TheCall.name, TheCall.additional).conf
           out == TheCall.out
       IN \A part \in PartsOf(own) :
             /\ <<"parts", part, "load">> \in DOMAIN own
             /\ <<"parts", part, "weights">> \notin DOMAIN own
             => /\ <<"parts", part, "weights">> \in DOMAIN out
                /\ out[<<"parts", part, "weights">>] = FullRef(own[<<"parts", part, "load">>])
                /\ <<"parts", part, "load">> \notin DOMAIN out

\* no `load` key at any level, the three defaults set, and parts declared
FullyResolved(c) ==
    /\ \A k \in DOMAIN c : ~IsLoadKey(k)
    /\ {<<"batch_size">>, <<"epochs">>, <<"validation_batch_size">>} \subseteq DOMAIN c
    /\ PartsOf(c) # {}

\* C15: parse_config with no overrides on a fully resolved configuration
\* returns a configuration equal to it; and what parse_config returns is fully
\* resolved.
C15_Idempotent ==
    conf # <<>> =>
       /\ TheCall.err = "none" => FullyResolved(TheCall.out)
       /\ /\ TheCall.additional = <<>>
          /\ StripYaml(TheCall.name) \in DOMAIN config_folder
          /\ FullyResolved(CallBase)
          => TheCall.err = "none" /\ TheCall.out = CallBase

\* a resolved configuration whose validation_batch_size is not twice its
\* batch_size and whose part names its weights
C15_Witness ==
    /\ conf # <<>> /\ TheCall.additional = <<>>
    /\ TheCall.name = <<"base", ".yaml">>
    /\ FullyResolved(CallBase)
    /\ CallBase[<<"validation_batch_size">>] = 5 /\ CallBase[<<"batch_size">>] = 8
    /\ <<"parts", "A", "weights">> \in DOMAIN CallBase
    /\ TheCall.out = CallBase

RECURSIVE SumW(_)
SumW(calls) == IF calls = <<>> THEN 0 ELSE Head(calls).w + SumW(Tail(calls))

RECURSIVE SumWX(_)
SumWX(calls) == IF calls = <<>> THEN 0 ELSE Head(calls).w * Head(calls).x + SumWX(Tail(calls))

\* sum(w_i * x_i) / sum(w_i), for a positive sum of weights
WeightedMean(calls) == Frac(SumWX(calls), SumW(calls))

\* the estimator after the calls made in order on e, up to the first that raises
RECURSIVE Run(_, _)
Run(e, calls) ==
    IF calls = <<>> \/ e.err # "none" THEN e
    ELSE Run(AvgEstimator_update(e, Head(calls).x, Head(calls).w), Tail(calls))

Orders(n) == {f \in [1 .. n -> 1 .. n] : \A i, j \in 1 .. n : i # j => f[i] # f[j]}
Reordered(calls, f) == [i \in 1 .. Len(calls) |-> calls[f[i]]]

\* the calls the user set out to make are over: all made, or one raised
CallsOver == upd.done = Len(upd.calls) \/ est.err # "none"

\* C16 as stated: whenever the weights are non-negative and one of them is
\* positive, the calls all succeed and get() is sum(w_i*x_i)/sum(w_i), in
\* whatever order the calls are made.
C16_AnyOrder ==
    (CallsOver /\ \E i \in DOMAIN upd.calls : upd.calls[i].w > 0)
    => /\ est.err = "none"
       /\ AvgEstimator_get(est) = WeightedMean(upd.calls)

\* C16 (amended): for every sequence of update(x_i, w_i) calls with all
\* w_i >= 0 whose first weight is positive, get() after every call equals
\* sum(w_i*x_i)/sum(w_i) of the calls made so far, and every reordering of the
\* whole sequence whose first weight is positive gives the same get(); a
\* reordering that starts with weight 0 raises at its first call.
C16_WeightedMean ==
    LET calls == upd.calls
        made == SubSeq(calls, 1, upd.done)
    IN (upd.done >= 1 /\ calls[1].w > 0)
       => /\ est.err = "none"
          /\ AvgEstimator_get(est) = WeightedMean(made)
          /\ upd.done = Len(calls) =>
                \A f \in Orders(Len(calls)) :
                   LET other == Run(AvgEstimator, Reordered(calls, f))
                   IN IF calls[f[1]].w > 0
                      THEN other.err = "none"
                           /\ AvgEstimator_get(other) = AvgEstimator_get(est)
                      ELSE other.err = "ZeroDivisionError"

\* update(0, 2), update(1, 0), update(2, 1): the mean is 2/3
C16_Witness ==
    /\ upd.calls = <<[x |-> 0, w |-> 2], [x |-> 1, w |-> 0], [x |-> 2, w |-> 1]>>
    /\ upd.done = 3
    /\ est.err = "none"
    /\ AvgEstimator_get(est) = <<2, 3>>

\* C17: update with weight 0 on an estimator whose tot_weight is positive
\* leaves avg and tot_weight as they were and raises nothing; update with
\* weight 0 on an estimator whose tot_weight is 0 raises ZeroDivisionError, so
\* an estimator that was updated and has tot_weight 0 never answers get()
\* with the average 0 as if nothing had happened.
C17_ZeroWeight ==
    [][/\ (upd'.done = upd.done + 1 /\ upd.calls[upd.done + 1].w = 0)
          => IF est.tot_weight > 0
             THEN est' = est
             ELSE est'.err = "ZeroDivisionError"
       /\ (upd'.done >= 1 /\ est'.tot_weight = 0) => est'.err # "none"]_vars

\* update(2, 1) then update(0, 0): the average stays 2
C17_Witness ==
    /\ upd.done = 2
    /\ upd.calls[1] = [x |-> 2, w |-> 1]
    /\ upd.calls[2] = [x |-> 0, w |-> 0]
    /\ est = [avg |-> <<2, 1>>, tot_weight |-> 1, err |-> "none"]

\* the events of batch b of epoch e, for a trainer with the optimizers `keys`
\* and the trigger set `trig`
BatchEvents(e, b, keys, trig) ==
    <<<<"zero_grad", e, b, keys>>, <<"train_step", e, b, {}>>, <<"backward", e, b, {}>>,
      <<"step", e, b, keys>>, <<"log_batch", e, b, {}>>>>
    \o (IF b \in trig THEN <<<<"validate", e, b, {}>>>> ELSE <<>>)

\* the events of batches b .. n-1 of epoch e
RECURSIVE BatchesFrom(_, _, _, _, _)
BatchesFrom(e, b, n, keys, trig) ==
    IF b >= n THEN <<>>
    ELSE BatchEvents(e, b, keys, trig) \o BatchesFrom(e, b + 1, n, keys, trig)

\* the events of epochs e .. epochs-1, each closed by its end-of-epoch validate
RECURSIVE EpochsFrom(_, _, _, _, _)
EpochsFrom(e, epochs, n, keys, trig) ==
    IF e >= epochs THEN <<>>
    ELSE BatchesFrom(e, 0, n, keys, trig) \o <<<<"validate", e, n, {}>>>>
         \o EpochsFrom(e + 1, epochs, n, keys, trig)

IsPrefix(s, t) == Len(s) <= Len(t) /\ \A i \in 1 .. Len(s) : s[i] = t[i]

\* C18: what a worker has done in its training loop is always a beginning of
\* the sequence that has, for every batch in turn, the gradient zeroing of
\* every optimizer, one train step, one backward pass, one step of every
\* optimizer, the logger's batch count and then, only if the batch index is in
\* the trigger set, a validation; so no optimizer steps before the backward
\* pass of its batch and no zeroing of the next batch precedes the steps of
\* the current one.
C18_BatchOrder ==
    IsPrefix(ev[P0], EpochsFrom(0, TheJob.epochs, TheJob.batches,
                                DOMAIN optimizers[P0], validate_set[P0]))

\* two optimizers, batch 1 in the trigger set: validated after its logger
\* count and before the zeroing of batch 2
C18_Witness ==
    /\ Len(ev[P0]) >= 12
    /\ ev[P0][9][1] = "step" /\ Cardinality(ev[P0][9][4]) >= 2
    /\ ev[P0][10] = <<"log_batch", 0, 1, {}>>
    /\ ev[P0][11] = <<"validate", 0, 1, {}>>
    /\ ev[P0][12][1] = "zero_grad" /\ ev[P0][12][3] = 2

\* how many events `op` worker q has recorded
Count(q, op) == Cardinality({i \in DOMAIN ev[q] : ev[q][i][1] = op})

\* neither train_step nor validation_step has raised on worker q
NoCollaboratorFailed(q) == err[q] # "StepFailure"

\* the positions of worker q inside train()
InTrain ==
    {"train", "zero_grad", "train_step", "backward", "opt_step", "log_batch",
     "check_validate", "log_epoch", "end_validate"}

\* the workers of the launch L1
Workers == {"L1"} \X Slots

\* C19: a worker in train(), configured for E epochs over n batches with an
\* interval that defines a trigger set, leaves train() by an exception only
\* when one of its collaborators has raised it, and when it has left train()
\* completed it has made exactly E*n train steps and E*(|trigger set| + 1)
\* validations, with no batch position of an epoch validated twice and the
\* last batch validated by the end-of-epoch validation only.
C19_LoopCompletes ==
    /\ [][\A q \in Workers :
             (pc[q] \in InTrain /\ job["L1"].validate_every # 0 /\ pc'[q] = "failed")
             => ~NoCollaboratorFailed(q)']_vars
    /\ [](\A q \in Workers :
             pc[q] = "done"
             => /\ Count(q, "train_step") = job["L1"].epochs * job["L1"].batches
                /\ Count(q, "validate")
                   = job["L1"].epochs * (Cardinality(validate_set[q]) + 1)
                /\ \A i, j \in DOMAIN val_calls[q] :
                      i # j => <<val_calls[q][i][1], val_calls[q][i][2]>>
                               # <<val_calls[q][j][1], val_calls[q][j][2]>>
                /\ \A e \in 0 .. MaxEpochs :
                      (job["L1"].batches - 1) \notin MidValidated(q, e))

\* what the run has persisted
Persisted == <<ckpt_files, latest, snap, written, n_saves, last_save>>

Last(s) == s[Len(s)]

\* C20: the step in which train_step or validation_step raises leaves the
\* worker failed, with the failing call as the last thing it did and without
\* any write to the checkpoints; from then on the worker makes no optimizer
\* step, no validation and no save, and the checkpoints stay as they were.
C20_FailureAborts ==
    [][/\ (err[P0] = "none" /\ err'[P0] = "StepFailure")
          => /\ pc'[P0] = "failed"
             /\ \E e \in ({"train_step", "validate"} \X (0 .. MaxEpochs)
                          \X (0 .. MaxBatches) \X {{}}) : ev'[P0] = Append(ev[P0], e)
             /\ Persisted' = Persisted
       /\ err[P0] = "StepFailure"
          => /\ pc'[P0] = "failed"
             /\ ev'[P0] = ev[P0]
             /\ val_calls'[P0] = val_calls[P0]
             /\ optimizers'[P0] = optimizers[P0]
             /\ model_parts'[P0] = model_parts[P0]
             /\ Persisted' = Persisted]_vars

\* validation_step raised in a validation that follows a saved one
C20_Witness ==
    /\ pc[P0] = "failed" /\ err[P0] = "StepFailure"
    /\ Last(ev[P0])[1] = "validate"
    /\ n_saves[P0] >= 1
    /\ Count(P0, "validate") = n_saves[P0] + 1
    /\ Cardinality(ckpt_files) = n_saves[P0]

\* launcher l is inside train() with a model ID under which nothing is saved yet
HoldsUnsavedId(l) ==
    /\ lpc[l] # "idle"
    /\ \A f \in ckpt_files : f[1] # mdl_id[l]

\* C21: get_next_id reads the model folder only, and a launch marks its ID as
\* taken only by its first checkpoint: a train() call that asks for its ID
\* while another call on the same folder holds an ID without a checkpoint is
\* given that same ID.  (Its config file then replaces the other's, and both
\* save under the one folder: the state of C21_Witness.)
C21_SameIdWhenConcurrent ==
    [][\A l, m \in Launchers :
          (l # m /\ HoldsUnsavedId(m) /\ lpc[l] = "idle" /\ lpc'[l] = "save_config")
          => mdl_id'[l] = mdl_id[m]]_vars

\* both calls run with the same ID, the config file is the second call's,
\* written over the first's, and both have saved checkpoints under the ID
C21_Witness ==
    /\ lpc["L1"] = "join" /\ lpc["L2"] = "join"
    /\ mdl_id["L1"] = mdl_id["L2"]
    /\ lrec["L1"].no # lrec["L2"].no
    /\ cfg_files[mdl_id["L1"]] = Max({lrec["L1"].no, lrec["L2"].no})
    /\ {<<lrec["L1"].no, 0>>, <<lrec["L2"].no, 0>>} \subseteq written
    /\ \A f \in ckpt_files : f[1] = mdl_id["L1"]

\* C22: a worker that runs with a null logger goes through the constructor of
\* its trainer and through train() as a worker with a real logger does: no
\* step of it ends in an exception unless train_step or validation_step
\* raised it, so that it makes the same train steps, backward passes,
\* optimizer steps and validations and completes.
C22_NullLoggerObservational ==
    [][\A q \in Workers :
          (logger[q] = "null" /\ pc[q] \in ({"construct"} \cup InTrain)
           /\ job["L1"].validate_every # 0 /\ pc'[q] = "failed")
          => ~NoCollaboratorFailed(q)']_vars

\* where Python's string order puts key k among the keys of a trainer
Position(k) == CHOOSE i \in DOMAIN KeyOrder : KeyOrder[i] = k

Ascending(keys) == \A i, j \in DOMAIN keys : i < j => Position(keys[i]) < Position(keys[j])

\* C23: in the step of train() that wraps for mixed precision, the parts and
\* the optimizers go to amp.initialize as lists in ascending key order that
\* hold every key once; afterwards model_parts and optimizers have the keys
\* they had, every key maps to the wrapped form of what it mapped to, and
\* every dedicated optimizer still holds the parameters of the part of its
\* name.
C23_ApexKeepsPairing ==
    [][(pc[P0] = "train" /\ pc'[P0] \notin {"train", "failed"})
       => LET mp == model_parts[P0]
              opts == optimizers[P0]
              block == ApexBlock(mp, opts)
          IN /\ Ascending(block.part_keys) /\ Range(block.part_keys) = DOMAIN mp
             /\ Ascending(block.opt_keys) /\ Range(block.opt_keys) = DOMAIN opts
             /\ DOMAIN model_parts'[P0] = DOMAIN mp
             /\ DOMAIN optimizers'[P0] = DOMAIN opts
             /\ \A k \in DOMAIN mp : model_parts'[P0][k] = Wrapped(mp[k])
             /\ \A k \in DOMAIN opts : optimizers'[P0][k] = Wrapped(opts[k])
             /\ \A k \in DOMAIN opts \ {"__global"} :
                   optimizers'[P0][k].params = Parameters(model_parts'[P0][k])]_vars

\* three parts, two dedicated optimizers and the global one, all wrapped
C23_Witness ==
    /\ pc[P0] = "zero_grad"
    /\ TheJob.apex
    /\ DOMAIN model_parts[P0] = {"A", "B", "C"}
    /\ DOMAIN optimizers[P0] = {"A", "B", "__global"}
    /\ \A k \in DOMAIN model_parts[P0] : model_parts[P0][k].amp
    /\ \A k \in DOMAIN optimizers[P0] : optimizers[P0][k].amp

\* the batches of the pass that returned key k, as the updates their values
\* make: the value of k with the weight of the batch
UpdatesOf(k) ==
    LET having == SelectSeq(upd.calls, LAMBDA metrics : k \in DOMAIN metrics)
    IN [i \in DOMAIN having |-> [x |-> having[i][k], w |-> BatchWeight(having[i])]]

\* C24: the metrics validate() hands to the save have exactly the keys the
\* validation steps returned, "weight" among them whenever a batch returned
\* one; the metric of a key is the weighted mean, by the weights of the
\* batches, of its values over the batches that returned it, so that the
\* "weight" metric is the weighted mean of the weights themselves.
C24_EveryKeyEstimated ==
    est.reduced
    => /\ DOMAIN est.saved = UNION {DOMAIN upd.calls[i] : i \in DOMAIN upd.calls}
       /\ \A k \in DOMAIN est.saved : est.saved[k] = WeightedMean(UpdatesOf(k))
       /\ "weight" \in DOMAIN est.saved
          => est.saved["weight"]
             = Frac(SumWX([i \in DOMAIN UpdatesOf("weight") |->
                             [x |-> UpdatesOf("weight")[i].w, w |-> UpdatesOf("weight")[i].w]]),
                    SumW(UpdatesOf("weight")))

\* a batch with loss 2 and weight 1, then a batch with weight 2 and no loss:
\* the loss metric is 2, the weight metric 5/3
C24_Witness ==
    /\ est.reduced
    /\ upd.calls = <<("loss" :> 2) @@ ("weight" :> 1), ("weight" :> 2)>>
    /\ est.saved = ("loss" :> <<2, 1>>) @@ ("weight" :> <<5, 3>>)

====
